---- MODULE Spec2Model ----
(***************************************************************************)
(* A model of the oledvec engine (tools/oledvec/engine-python/oledvec):    *)
(* the vectorizer (export_svg.py), the qualifier and the detector's        *)
(* scoring (detect.py), the binarizer (process.py), the item state store   *)
(* (state.py), the shape library (shapes.py) and the review workflow       *)
(* (batch ingest in __main__.py, the review API in server.py).             *)
(*                                                                         *)
(* Python values are encoded as follows.  An optional value is a sequence  *)
(* of length at most one: None is <<>> and a present value v is <<v>>.     *)
(* Floats are fixed-point integers in thousandths.  A dict is a function   *)
(* whose DOMAIN is its key set; the empty dict is <<>>.  A boolean bitmap  *)
(* is the set of its true pixels <<x, y>>, so that bitmap[y, x] is         *)
(* <<x, y>> \in bitmap.                                                    *)
(***************************************************************************)
EXTENDS Integers, Sequences, FiniteSets, TLC

VARIABLES
  \* bitmap_to_svg_rectangles (export_svg.py), one variable per local
  bitmap, rectangles, new_rectangles, used, i, merged, changed, pc,
  \* qualify_oled (detect.py): the arguments of a call and what it returned
  qargs, qret,
  \* the review workflow: what is on disk (the state document, the shapes
  \* document, the generated screens and the source files), what the last
  \* operation answered, and the clock behind datetime.utcnow()
  disk, resp, now,
  \* the same run of the workflow without the requests that only set or
  \* clear flags.manual_status
  shadow,
  \* a call of one function of the engine on its own: its arguments and
  \* what it returned
  call, ret,
  \* processes that write the documents of one device at the same time:
  \* where each one is and what it has loaded
  writers

vzVars == <<bitmap, rectangles, new_rectangles, used, i, merged, changed, pc>>
qVars == <<qargs, qret>>
flowVars == <<disk, resp, now, shadow>>
callVars == <<call, ret>>
wVars == <<writers>>

vars == <<vzVars, qVars, flowVars, callVars, wVars>>

\* Optional values.
None == <<>>
Some(v) == <<v>>

\* dict.get(key, default), dict[key] = value, dict.update(other), dict.pop(key, None)
Get(dict, key, default) == IF key \in DOMAIN dict THEN dict[key] ELSE default
Put(dict, key, value) ==
  [k \in DOMAIN dict \cup {key} |-> IF k = key THEN value ELSE dict[k]]
Update(dict, other) ==
  [k \in DOMAIN dict \cup DOMAIN other |-> IF k \in DOMAIN other THEN other[k] ELSE dict[k]]
Pop(dict, key) == [k \in DOMAIN dict \ {key} |-> dict[k]]

\* The element of a singleton.  Python computes an expression once and names
\* its value: Only({ F(x) : x \in {e} }) is F of the value of e.
Only(S) == CHOOSE x \in S : TRUE

Min(a, b) == IF a < b THEN a ELSE b
Max(a, b) == IF a > b THEN a ELSE b
Abs(a) == IF a < 0 THEN -a ELSE a

----------------------------------------------------------------------------
(* Bounds.  The bitmap is 128x64 in the program; the model scales it down. *)

BitmapW == 3
BitmapH == 3

Pixels == (0 .. BitmapW - 1) \X (0 .. BitmapH - 1)

\* The number of workflow operations of a run.
MaxOps == 4

\* The number of true pixels of a bitmap given to the shape functions.
MaxOn == 4
----------------------------------------------------------------------------
(* detect.py: qualify_oled                                                 *)

\* qualify_oled(bbox, confidence, metrics, image, threshold,
\* diagram_threshold).  bbox is None or Some(<<x, y, w, h>>); metrics is a
\* dict; diagram is None when no image is passed and otherwise
\* Some(detect_diagram_features(image)["diagram_confidence"]).
\* The result is <<is_qualifying, reason_codes>>.
DiagramReasons(diagram, diagram_threshold) ==
  IF diagram # None /\ diagram[1] > diagram_threshold
  THEN <<"diagram_detected">> ELSE <<>>

\* Mutant of ConfidenceReasons: a confidence one thousandth below the
\* threshold is let through.
ConfidenceReasonsBelowByMore(confidence, threshold) ==
  IF confidence < threshold - 1 THEN <<"low_confidence">> ELSE <<>>

ConfidenceReasons(confidence, threshold) ==
  IF confidence < threshold THEN <<"low_confidence">> ELSE <<>>

AspectReasons(metrics) ==
  IF "aspect_ratio" \in DOMAIN metrics
  THEN IF metrics["aspect_ratio"] < 500 \/ metrics["aspect_ratio"] > 5000
       THEN <<"aspect_ratio">>
       ELSE IF "aspect_score" \in DOMAIN metrics /\ metrics["aspect_score"] < 300
            THEN <<"aspect_ratio">> ELSE <<>>
  ELSE IF "aspect_score" \in DOMAIN metrics /\ metrics["aspect_score"] < 300
       THEN <<"aspect_ratio">> ELSE <<>>

AreaReasons(metrics) ==
  IF "area_fraction" \in DOMAIN metrics
  THEN IF metrics["area_fraction"] < 50 THEN <<"area_too_small">>
       ELSE IF metrics["area_fraction"] > 900 THEN <<"bbox_too_large">>
       ELSE <<>>
  ELSE <<>>

RectangularityReasons(metrics) ==
  IF "rectangularity" \in DOMAIN metrics /\ metrics["rectangularity"] < 600
  THEN <<"low_rectangularity">> ELSE <<>>

\* Lines 810-821: a box at the left and top edges covering most of the image.
EdgeReasons(box, metrics) ==
  IF box[1] < 10 /\ box[2] < 10 /\ Get(metrics, "area_fraction", 0) > 950
  THEN IF Get(metrics, "bbox_edge_contrast", 100000) < 5000
       THEN <<"bbox_too_large">>
       ELSE IF "bbox_edge_contrast" \notin DOMAIN metrics
                 \/ metrics["bbox_edge_contrast"] = 0
            THEN <<"bbox_too_large">> ELSE <<>>
  ELSE <<>>

\* Mutant of QualifyOled: "and len(reasons) == 0" is forgotten.
QualifyOledThresholdOnly(bbox, confidence, metrics, diagram, threshold, diagram_threshold) ==
  IF bbox = None THEN <<FALSE, <<"bbox_missing">> >>
  ELSE LET reasons == DiagramReasons(diagram, diagram_threshold)
                      \o ConfidenceReasons(confidence, threshold)
                      \o AspectReasons(metrics)
                      \o AreaReasons(metrics)
                      \o RectangularityReasons(metrics)
                      \o EdgeReasons(bbox[1], metrics)
       IN  <<confidence >= threshold, reasons>>

QualifyOled(bbox, confidence, metrics, diagram, threshold, diagram_threshold) ==
  IF bbox = None THEN <<FALSE, <<"bbox_missing">> >>
  ELSE LET reasons == DiagramReasons(diagram, diagram_threshold)
                      \o ConfidenceReasons(confidence, threshold)
                      \o AspectReasons(metrics)
                      \o AreaReasons(metrics)
                      \o RectangularityReasons(metrics)
                      \o EdgeReasons(bbox[1], metrics)
           is_qualifying == confidence >= threshold /\ Len(reasons) = 0
       IN  <<is_qualifying,
             IF ~is_qualifying /\ reasons = <<>> THEN <<"unknown">> ELSE reasons>>

\* The defaults of the signature.
DefaultThreshold == 750
DefaultDiagramThreshold == 400

\* A metrics dict from optional entries.
MetricKeys ==
  <<"aspect_ratio", "aspect_score", "area_fraction", "rectangularity",
    "bbox_edge_contrast">>

MetricsOf(opts) ==
  [k \in { MetricKeys[n] : n \in { m \in 1 .. 5 : opts[m] # None } } |->
     opts[CHOOSE n \in 1 .. 5 : MetricKeys[n] = k][1]]

\* The calls the model makes.
QBoxes == {None, Some(<<0, 0, 40, 20>>), Some(<<12, 0, 20, 10>>), Some(<<3, 30, 10, 10>>)}
QConfidences == {0, 500, 749, 750, 900}
QDiagrams == {None, Some(300), Some(400), Some(401)}
QAspectRatios == {None, Some(400), Some(2000), Some(6000)}
QAspectScores == {None, Some(200), Some(1000)}
QAreaFractions == {None, Some(40), Some(500), Some(920), Some(960)}
QRectangularities == {None, Some(500), Some(800)}
QEdgeContrasts == {None, Some(0), Some(3000), Some(20000)}

QStart ==
  /\ qargs \in [bbox : QBoxes, confidence : QConfidences, diagram : QDiagrams,
                metrics : { MetricsOf(<<ar, sc, af, re, ec>>) :
                              ar \in QAspectRatios, sc \in QAspectScores,
                              af \in QAreaFractions, re \in QRectangularities,
                              ec \in QEdgeContrasts }]
  /\ qret = None

Qualify ==
  /\ qret = None
  /\ qret' = Some(QualifyOled(qargs.bbox, qargs.confidence, qargs.metrics,
                              qargs.diagram, DefaultThreshold,
                              DefaultDiagramThreshold))
  /\ UNCHANGED qargs

----------------------------------------------------------------------------
(* export_svg.py: bitmap_to_svg_rectangles                                 *)

\* A rectangle is <<x, y, width, height>>.
RectPixels(r) ==
  { p \in Pixels : /\ r[1] <= p[1] /\ p[1] < r[1] + r[3]
                   /\ r[2] <= p[2] /\ p[2] < r[2] + r[4] }

\* Mutant of RunEnd: the run is cut after its first pixel.
RunEndOnePixel(bm, y, x) == x + 1

\* The inner "while x < w and bitmap[y, x]: x += 1": the end of the run.
RECURSIVE RunEnd(_, _, _)
RunEnd(bm, y, x) ==
  IF x < BitmapW /\ <<x, y>> \in bm THEN RunEnd(bm, y, x + 1) ELSE x

\* The "while x < w" scan of one row, from column x on.
RECURSIVE RowRuns(_, _, _)
RowRuns(bm, y, x) ==
  IF x >= BitmapW THEN <<>>
  ELSE IF <<x, y>> \in bm
       THEN <<  <<x, y, RunEnd(bm, y, x) - x, 1>>  >> \o RowRuns(bm, y, RunEnd(bm, y, x))
       ELSE RowRuns(bm, y, x + 1)

\* Mutant of SeedRectangles: the rows are scanned bottom to top.
RECURSIVE SeedRectanglesBottomUp(_, _)
SeedRectanglesBottomUp(bm, y) ==
  IF y >= BitmapH THEN <<>>
  ELSE SeedRectanglesBottomUp(bm, y + 1) \o RowRuns(bm, y, 0)

\* Step 1: "for y in range(h)", rows top to bottom.
RECURSIVE SeedRectangles(_, _)
SeedRectangles(bm, y) ==
  IF y >= BitmapH THEN <<>> ELSE RowRuns(bm, y, 0) \o SeedRectangles(bm, y + 1)

\* Mutant of VerticalMatch: "and w2 == width" is forgotten.
VerticalMatchAnyWidth(m, r) ==
  /\ r[1] = m[1]
  /\ (r[2] = m[2] + m[4] \/ r[2] + r[4] = m[2])

\* The vertical test of lines 67-79 for candidate rectangle r against merged m.
VerticalMatch(m, r) ==
  /\ r[1] = m[1] /\ r[3] = m[3]
  /\ (r[2] = m[2] + m[4] \/ r[2] + r[4] = m[2])

VerticalMerge(m, r) ==
  IF r[2] = m[2] + m[4]
  THEN <<m[1], m[2], m[3], m[4] + r[4]>>      \* rect2 is below merged
  ELSE <<m[1], r[2], m[3], m[4] + r[4]>>      \* rect2 is above merged

\* The horizontal test of lines 89-101.
HorizontalMatch(m, r) ==
  /\ r[2] = m[2] /\ r[4] = m[4]
  /\ (r[1] = m[1] + m[3] \/ r[1] + r[3] = m[1])

HorizontalMerge(m, r) ==
  IF r[1] = m[1] + m[3]
  THEN <<m[1], m[2], m[3] + r[3], m[4]>>      \* rect2 is to the right
  ELSE <<r[1], m[2], m[3] + r[3], m[4]>>      \* rect2 is to the left

\* "for j, ... in enumerate(rectangles): if j in used or j == i: continue":
\* the indices the inner for loops look at.
CandidatesOf(rects, usd, idx) == { j \in 1 .. Len(rects) : j \notin usd /\ j # idx }

VerticalHitsOf(rects, usd, idx, m) ==
  { j \in CandidatesOf(rects, usd, idx) : VerticalMatch(m, rects[j]) }

HorizontalHitsOf(rects, usd, idx, m) ==
  { j \in CandidatesOf(rects, usd, idx) : HorizontalMatch(m, rects[j]) }

VerticalHits == VerticalHitsOf(rectangles, used, i, merged)
HorizontalHits == HorizontalHitsOf(rectangles, used, i, merged)

\* The loops break at the first hit.
First(S) == CHOOSE j \in S : \A k \in S : j <= k

VzStart ==
  /\ bitmap \in SUBSET Pixels
  /\ rectangles = SeedRectangles(bitmap, 0)
  /\ new_rectangles = <<>>
  /\ used = {}
  /\ i = 1
  /\ merged = <<>>
  /\ changed = TRUE
  /\ pc = "while"

\* "while changed:" entered: a new pass starts.
StartPass ==
  /\ pc = "while" /\ changed
  /\ changed' = FALSE
  /\ new_rectangles' = <<>>
  /\ used' = {}
  /\ i' = 1
  /\ pc' = "for"
  /\ UNCHANGED <<bitmap, rectangles, merged>>

\* "while changed:" left: "return rectangles".
Return ==
  /\ pc = "while" /\ ~changed
  /\ pc' = "done"
  /\ UNCHANGED <<bitmap, rectangles, new_rectangles, used, i, merged, changed>>

\* "for i, ... in enumerate(rectangles): if i in used: continue".
SkipUsed ==
  /\ pc = "for" /\ i <= Len(rectangles) /\ i \in used
  /\ i' = i + 1
  /\ UNCHANGED <<bitmap, rectangles, new_rectangles, used, merged, changed, pc>>

\* "merged = (x1, y1, w1, h1)".
TakeRect ==
  /\ pc = "for" /\ i <= Len(rectangles) /\ i \notin used
  /\ merged' = rectangles[i]
  /\ pc' = "inner"
  /\ UNCHANGED <<bitmap, rectangles, new_rectangles, used, i, changed>>

\* Mutant of MergeStep: "used.add(j)" is forgotten, the partner stays alive.
MergeStepKeepsPartner ==
  /\ pc = "inner"
  /\ VerticalHits # {} \/ HorizontalHits # {}
  /\ IF VerticalHits # {}
     THEN merged' = VerticalMerge(merged, rectangles[First(VerticalHits)])
     ELSE merged' = HorizontalMerge(merged, rectangles[First(HorizontalHits)])
  /\ changed' = TRUE
  /\ UNCHANGED <<bitmap, rectangles, new_rectangles, used, i, pc>>

\* One iteration of "while merge_found" that finds a partner: the vertical
\* loop first, the horizontal loop only "if not merge_found".
MergeStep ==
  /\ pc = "inner"
  /\ VerticalHits # {} \/ HorizontalHits # {}
  /\ IF VerticalHits # {}
     THEN /\ merged' = VerticalMerge(merged, rectangles[First(VerticalHits)])
          /\ used' = used \cup {First(VerticalHits)}
     ELSE /\ merged' = HorizontalMerge(merged, rectangles[First(HorizontalHits)])
          /\ used' = used \cup {First(HorizontalHits)}
  /\ changed' = TRUE
  /\ UNCHANGED <<bitmap, rectangles, new_rectangles, i, pc>>

\* The iteration of "while merge_found" that finds none:
\* "new_rectangles.append(merged); used.add(i)".
AppendMerged ==
  /\ pc = "inner"
  /\ VerticalHits = {} /\ HorizontalHits = {}
  /\ new_rectangles' = Append(new_rectangles, merged)
  /\ used' = used \cup {i}
  /\ i' = i + 1
  /\ pc' = "for"
  /\ UNCHANGED <<bitmap, rectangles, merged, changed>>

\* The for loop is exhausted: "rectangles = new_rectangles".
EndPass ==
  /\ pc = "for" /\ i > Len(rectangles)
  /\ rectangles' = new_rectangles
  /\ pc' = "while"
  /\ UNCHANGED <<bitmap, new_rectangles, used, i, merged, changed>>

VzNext ==
  \/ StartPass
  \/ Return
  \/ SkipUsed
  \/ TakeRect
  \/ MergeStep
  \/ AppendMerged
  \/ EndPass

\* The same function as one value, for its callers (export_svg).  A loop is
\* a recursion over the values of its variables.

\* One iteration of "while merge_found" that merges: the vertical partner
\* if there is one, else the horizontal one.
MergeOnce(rects, idx, st) ==
  LET v == VerticalHitsOf(rects, st.used, idx, st.merged)
      h == HorizontalHitsOf(rects, st.used, idx, st.merged)
  IN  IF v # {}
      THEN [merged |-> VerticalMerge(st.merged, rects[First(v)]),
            used |-> st.used \cup {First(v)}, changed |-> TRUE]
      ELSE [merged |-> HorizontalMerge(st.merged, rects[First(h)]),
            used |-> st.used \cup {First(h)}, changed |-> TRUE]

\* "while merge_found": merged, used and changed when the loop is left.
RECURSIVE WhileMergeFound(_, _, _)
WhileMergeFound(rects, idx, st) ==
  IF /\ VerticalHitsOf(rects, st.used, idx, st.merged) = {}
     /\ HorizontalHitsOf(rects, st.used, idx, st.merged) = {}
  THEN st
  ELSE Only({ WhileMergeFound(rects, idx, next) :
                next \in {MergeOnce(rects, idx, st)} })

\* The body of "for i, ... in enumerate(rectangles)".
ForBody(rects, st) ==
  IF st.idx \in st.used THEN [st EXCEPT !.idx = @ + 1]
  ELSE Only({ [idx |-> st.idx + 1, used |-> r.used \cup {st.idx},
               new |-> Append(st.new, r.merged), changed |-> r.changed] :
                r \in {WhileMergeFound(rects, st.idx,
                                       [merged |-> rects[st.idx],
                                        used |-> st.used,
                                        changed |-> st.changed])} })

\* "for i, ... in enumerate(rectangles)": one pass.
RECURSIVE ForEachRect(_, _)
ForEachRect(rects, st) ==
  IF st.idx > Len(rects) THEN st
  ELSE Only({ ForEachRect(rects, next) : next \in {ForBody(rects, st)} })

\* "while changed".
RECURSIVE WhileChanged(_)
WhileChanged(rects) ==
  Only({ IF pass.changed THEN WhileChanged(pass.new) ELSE pass.new :
           pass \in {ForEachRect(rects, [idx |-> 1, used |-> {}, new |-> <<>>,
                                         changed |-> FALSE])} })

BitmapToSvgRectangles(bm) ==
  Only({ WhileChanged(seeds) : seeds \in {SeedRectangles(bm, 0)} })

\* export_svg: the document lists the rectangles in order, one <rect> each,
\* under a fixed header; it is modelled by the list.
ExportSvg(bm) == BitmapToSvgRectangles(bm)

----------------------------------------------------------------------------
(* Images.  What cv2 computes from the pixels of a source image is given   *)
(* with the image: whether cv2.imread can decode it, its shape, the        *)
(* candidate contours (bounding rectangle, contour area, grey-level        *)
(* standard deviation inside the rectangle), the box refine_bbox snaps to  *)
(* (None when it changes nothing) and the diagram confidence of            *)
(* detect_diagram_features.  Grey levels are given by GrayAt.              *)

Candidate(rect, contour_area, std_dev) ==
  [rect |-> rect, contour_area |-> contour_area, std_dev |-> std_dev]

\* A file cv2.imread returns None for.
ImgUnreadable ==
  [readable |-> FALSE, width |-> 0, height |-> 0, candidates |-> <<>>,
   refined |-> None, diagram |-> 0]

\* A readable page without any contour of at least 10% of its area.
ImgBlank ==
  [readable |-> TRUE, width |-> 600, height |-> 300,
   candidates |-> << Candidate(<<10, 10, 100, 50>>, 4000, 30) >>,
   refined |-> None, diagram |-> 200]

\* A page with a display at the top-left corner.
ImgGood ==
  [readable |-> TRUE, width |-> 600, height |-> 300,
   candidates |-> << Candidate(<<100, 100, 200, 150>>, 21000, 25),
                     Candidate(<<0, 0, 500, 250>>, 118750, 60) >>,
   refined |-> None, diagram |-> 200]

\* A page whose best candidate scores below the acceptance threshold.
ImgWeak ==
  [readable |-> TRUE, width |-> 600, height |-> 300,
   candidates |-> << Candidate(<<100, 100, 200, 150>>, 21000, 25) >>,
   refined |-> None, diagram |-> 200]

\* A page with a small display at the top-left corner: 11% of the page.
ImgSmall ==
  [readable |-> TRUE, width |-> 600, height |-> 300,
   candidates |-> << Candidate(<<0, 0, 200, 100>>, 19500, 60) >>,
   refined |-> None, diagram |-> 200]

Images == {ImgUnreadable, ImgBlank, ImgGood, ImgWeak, ImgSmall}

\* The grey level of source pixel (x, y): bright vertical stripes 150 pixels
\* wide over the upper 200 rows, dark elsewhere.
GrayAt(image, x, y) ==
  IF (x \div 150) % 2 = 0 /\ y < 200 THEN 200 ELSE 40

----------------------------------------------------------------------------
(* detect.py: detect_oled_bbox, lines 185-306                              *)

MinAreaFraction == 100

CommonSizes ==
  << <<500, 250>>, <<100, 100>>, <<540, 280>>, <<550, 280>>, <<530, 280>>,
     <<497, 250>> >>

AspectRatio(rect) == IF rect[4] > 0 THEN (1000 * rect[3]) \div rect[4] ELSE 0

\* Lines 217-224.
DetectAspectScore(rect) ==
  IF AspectRatio(rect) < 700 \/ AspectRatio(rect) > 4000 THEN 0
  ELSE Max(0, 1000 - (Abs(AspectRatio(rect) - 1950) * 1000) \div 1500)

AreaFraction(rect, total_area) == (1000 * rect[3] * rect[4]) \div total_area

\* Lines 235-236.
PositionScore(rect) == Max(0, 1000 - (Min(rect[1], rect[2]) * 1000) \div 30)

\* Lines 239-246: 0.15 when width and height are within 10% of a common size.
SizeScore(rect) ==
  IF \E n \in 1 .. Len(CommonSizes) :
       /\ 10 * Abs(rect[3] - CommonSizes[n][1]) < CommonSizes[n][1]
       /\ 10 * Abs(rect[4] - CommonSizes[n][2]) < CommonSizes[n][2]
  THEN 150 ELSE 0

\* Lines 249-254.
ContrastScore(std_dev) == Min((std_dev * 1000) \div 50, 1000)

\* Lines 258-262.
AreaPenalty(area_fraction) ==
  IF area_fraction > 900 THEN 400
  ELSE IF area_fraction > 850 THEN 700
  ELSE 1000

\* Mutant of DetectConfidence: the area term is left out.
DetectConfidenceWithoutArea(aspect_score, area_fraction, rectangularity, contrast_score, position_score, size_score) ==
  LET area_penalty == AreaPenalty(area_fraction)
      sum == aspect_score * 300
             + rectangularity * 200
             + contrast_score * 150
             + position_score * 150
             + size_score * 1000
  IN  (sum * area_penalty) \div 1000000

\* Lines 265-272, in thousandths; the weighted terms are summed in millionths.
DetectConfidence(aspect_score, area_fraction, rectangularity, contrast_score, position_score, size_score) ==
  LET area_penalty == AreaPenalty(area_fraction)
      sum == aspect_score * 300
             + (Min(area_fraction, 500) * 2 * 200 * area_penalty) \div 1000
             + rectangularity * 200
             + contrast_score * 150
             + position_score * 150
             + size_score * 1000
  IN  (sum * area_penalty) \div 1000000

\* The metrics of one candidate (lines 213-254, 277-285).
CandidateMetrics(c, total_area) ==
  [aspect_ratio |-> AspectRatio(c.rect),
   aspect_score |-> DetectAspectScore(c.rect),
   area_fraction |-> AreaFraction(c.rect, total_area),
   rectangularity |-> IF c.rect[3] * c.rect[4] > 0
                      THEN (1000 * c.contour_area) \div (c.rect[3] * c.rect[4])
                      ELSE 0,
   contrast_score |-> ContrastScore(c.std_dev),
   position_score |-> PositionScore(c.rect),
   size_score |-> SizeScore(c.rect)]

CandidateConfidence(c, total_area) ==
  LET m == CandidateMetrics(c, total_area)
  IN  DetectConfidence(m.aspect_score, m.area_fraction, m.rectangularity,
                       m.contrast_score, m.position_score, m.size_score)

\* The body of "for contour in all_contours" (lines 205-285): the best so
\* far is <<bbox, score, metrics>>.
BestAfter(c, total_area, best) ==
  IF 1000 * c.rect[3] * c.rect[4] < total_area * MinAreaFraction THEN best
  ELSE IF CandidateConfidence(c, total_area) > best[2]
  THEN <<Some(c.rect), CandidateConfidence(c, total_area),
         CandidateMetrics(c, total_area)>>
  ELSE best

RECURSIVE BestCandidate(_, _, _, _)
BestCandidate(cands, n, total_area, best) ==
  IF n > Len(cands) THEN best
  ELSE Only({ BestCandidate(cands, n + 1, total_area, next) :
                next \in {BestAfter(cands[n], total_area, best)} })

\* detect_oled_bbox(image): <<bbox, confidence, metrics>>.
DetectOledBbox(image) ==
  LET total_area == image.height * image.width
      best == BestCandidate(image.candidates, 1, total_area, <<None, 0, <<>> >>)
  IN  IF image.candidates = <<>> \/ best[1] = None
      THEN <<None, 0, [bbox_missing |-> 1000]>>
      ELSE IF image.refined # None
      THEN <<image.refined, best[2],
             Update(best[3],
                    [refined |-> 1000,
                     area_fraction |-> AreaFraction(image.refined[1], total_area),
                     aspect_ratio |-> AspectRatio(image.refined[1])])>>
      ELSE best

----------------------------------------------------------------------------
(* process.py                                                              *)

\* normalize_image(image, bbox): the crop resized to the bitmap's size; the
\* resize is modelled by the source pixel at the centre of each target cell.
NormalizeImage(image, bbox) ==
  [p \in Pixels |->
     GrayAt(image,
            bbox[1] + ((2 * p[1] + 1) * bbox[3]) \div (2 * BitmapW),
            bbox[2] + ((2 * p[2] + 1) * bbox[4]) \div (2 * BitmapH))]

Levels(normalized) == { normalized[p] : p \in Pixels }

\* compute_otsu_threshold: cv2's Otsu threshold, for images of at most two
\* grey levels: the lower level, and 0 for a uniform image.
ComputeOtsuThreshold(normalized) ==
  IF Cardinality(Levels(normalized)) <= 1 THEN 0
  ELSE CHOOSE v \in Levels(normalized) : \A u \in Levels(normalized) : v <= u

\* compute_pixel_density: the fraction of pixels above the fixed level 127.
ComputePixelDensity(normalized) ==
  (1000 * Cardinality({ p \in Pixels : normalized[p] > 127 }))
    \div Cardinality(Pixels)

InRange(p) == 0 <= p[1] /\ p[1] < BitmapW /\ 0 <= p[2] /\ p[2] < BitmapH

ListSet(list) == { list[n] : n \in 1 .. Len(list) }

\* Mutant of Binarize: force_off is applied before force_on.
BinarizeOffFirst(normalized, threshold, overrides) ==
  LET t == IF threshold = None THEN ComputeOtsuThreshold(normalized)
           ELSE threshold[1]
      thresholded == { p \in Pixels : normalized[p] > t }
      apply == overrides # None /\ overrides[1] # <<>>
      force_on == IF apply THEN ListSet(Get(overrides[1], "force_on", <<>>)) ELSE {}
      force_off == IF apply THEN ListSet(Get(overrides[1], "force_off", <<>>)) ELSE {}
  IN  (thresholded \ { p \in force_off : InRange(p) })
        \cup { p \in force_on : InRange(p) }

\* binarize(image, threshold, overrides): threshold is None or Some(value),
\* overrides is None or Some(dict).
Binarize(normalized, threshold, overrides) ==
  LET t == IF threshold = None THEN ComputeOtsuThreshold(normalized)
           ELSE threshold[1]
      thresholded == { p \in Pixels : normalized[p] > t }
      apply == overrides # None /\ overrides[1] # <<>>
      force_on == IF apply THEN ListSet(Get(overrides[1], "force_on", <<>>)) ELSE {}
      force_off == IF apply THEN ListSet(Get(overrides[1], "force_off", <<>>)) ELSE {}
  IN  (thresholded \cup { p \in force_on : InRange(p) })
        \ { p \in force_off : InRange(p) }

----------------------------------------------------------------------------
(* shapes.py                                                               *)

Neighbours(p, q) == p # q /\ Abs(p[1] - q[1]) <= 1 /\ Abs(p[2] - q[2]) <= 1

\* The 8-connected component of bm that holds the pixels of seed.
RECURSIVE Grow(_, _)
Grow(bm, seed) ==
  Only({ IF next = seed THEN seed ELSE Grow(bm, next) :
           next \in { seed \cup { q \in bm : \E p \in seed : Neighbours(p, q) } } })

\* extract_connected_components: the components (label 0, the background,
\* is skipped).
ExtractConnectedComponents(bm) == { Grow(bm, {p}) : p \in bm }

\* The component's bitmap inside its bounding box, row by row, as
\* astype(np.uint8).tobytes() gives it.
Flatten(comp, x0, y0, w, h) ==
  [n \in 1 .. w * h |->
     IF <<x0 + ((n - 1) % w), y0 + ((n - 1) \div w)>> \in comp THEN 1 ELSE 0]

\* Mutant of HashComponent: the bytes of the whole bitmap, not of the
\* component's bounding box.
HashComponentAbsolute(comp) == Flatten(comp, 0, 0, BitmapW, BitmapH)

\* hash_component: SHA-256 of the bytes, modelled by the bytes themselves.
HashComponent(comp) ==
  LET xs == { p[1] : p \in comp }
      ys == { p[2] : p \in comp }
      x0 == CHOOSE x \in xs : \A u \in xs : x <= u
      x1 == CHOOSE x \in xs : \A u \in xs : x >= u
      y0 == CHOOSE y \in ys : \A u \in ys : y <= u
      y1 == CHOOSE y \in ys : \A u \in ys : y >= u
  IN  Flatten(comp, x0, y0, x1 - x0 + 1, y1 - y0 + 1)

\* Mutant of CountComponents: the counts start from an empty table.
CountComponentsFresh(shapes, comps) ==
  [k \in { HashComponent(c) : c \in comps } |->
     Cardinality({ c \in comps : HashComponent(c) = k })]

\* "for component_bitmap, _ in components: shapes[hash] = shapes.get(hash, 0) + 1".
CountComponents(shapes, comps) ==
  Only({ [k \in DOMAIN shapes \cup { hashes[c] : c \in comps } |->
            Get(shapes, k, 0) + Cardinality({ c \in comps : hashes[c] = k })] :
           hashes \in { [c \in comps |-> HashComponent(c)] } })

\* update_shapes_from_bitmap: load, count, save.
UpdateShapesFromBitmap(shapes, bm) ==
  Only({ CountComponents(shapes, comps) :
           comps \in {ExtractConnectedComponents(bm)} })
----------------------------------------------------------------------------
(* state.py.  The state document is the dict "items" of state.json, from   *)
(* slug to item state; an item state is a dict.                            *)

\* get_item_state: None when the slug has no record.
GetItemState(items, item_id) ==
  IF item_id \in DOMAIN items THEN Some(items[item_id]) ELSE None

\* set_item_state: load the document, replace the item, save the document.
SetItemState(items, item_id, item_data) == Put(items, item_id, item_data)

\* create_item_state: a fresh record; reviewer fields start empty.
CreateItemState(source_path, oled_bbox, confidence, is_qualifying, reason_codes, otsu_threshold, pixel_density, t) ==
  [source_path |-> source_path,
   updated_at |-> t,
   oled_bbox |-> oled_bbox,
   normalize_params |->
     IF otsu_threshold = None THEN [target_size |-> <<BitmapW, BitmapH>>]
     ELSE [target_size |-> <<BitmapW, BitmapH>>,
           otsu_threshold |-> otsu_threshold[1]],
   validation |->
     IF pixel_density = None
     THEN [is_qualifying |-> is_qualifying, confidence |-> confidence,
           reason_codes |-> reason_codes]
     ELSE [is_qualifying |-> is_qualifying, confidence |-> confidence,
           reason_codes |-> reason_codes, pixel_density |-> pixel_density[1]],
   overrides |-> [force_on |-> <<>>, force_off |-> <<>>],
   flags |-> <<>>,
   notes |-> ""]

\* Mutant of UpdateItemState: overrides and flags replace like any other key.
UpdateItemStateReplacing(item_state, updates, t) ==
  Update(Put(item_state, "updated_at", t), updates)

\* update_item_state(item_state, **updates): updated_at is refreshed, the
\* dicts overrides and flags are merged key by key, any other key replaces.
UpdateItemState(item_state, updates, t) ==
  LET updated == Put(item_state, "updated_at", t)
  IN  [k \in DOMAIN updated \cup DOMAIN updates |->
         IF k \notin DOMAIN updates THEN updated[k]
         ELSE IF k \in {"overrides", "flags"}
              THEN Update(Get(updated, k, <<>>), updates[k])
              ELSE updates[k]]

----------------------------------------------------------------------------
(* What is on disk for the device: "state" is state.json's items,          *)
(* "shapes" is shapes.json, "svg" and "preview" are the files of screens/  *)
(* by slug, "files" maps the path <<area, name>> of each source file of    *)
(* incoming/ and rejected/ to its image, "manifest" is index.json (None    *)
(* until it is written).  A file name is <<stem, ext>>.                    *)

Names == { <<"a", "png">> }
Slugs == { "a" }

\* sanitize_slug, for names whose stem is alphanumeric: the stem.
SanitizeSlug(name) == name[1]

Path(area, name) == <<area, name>>

EmptyDisk(image) ==
  [state |-> <<>>, shapes |-> <<>>, svg |-> <<>>, preview |-> <<>>,
   manifest |-> None,
   files |-> [p \in { Path("incoming", n) : n \in Names } |-> image]]

\* Path.rename: the file is at the target afterwards (an existing target is
\* replaced).
Rename(files, from, to) == Put(Pop(files, from), to, files[from])

Answer(d, r) == [disk |-> d, resp |-> r]

\* What an operation answers: the operation, the item, whether it succeeded,
\* the HTTP status code (0 outside the API), the detail of the error and what
\* became of the relocation of the source file.
Resp(op, slug, status, code, detail, relocation) ==
  [op |-> op, slug |-> slug, status |-> status, code |-> code,
   detail |-> detail, relocation |-> relocation]

----------------------------------------------------------------------------
(* __main__.py: process_image(image_path, device, repo_root, move_rejected)*)
(* for a file of incoming/.  rename_ok tells whether Path.rename succeeds. *)

\* Lines 94-117: the rejected branch.
ProcessRejected(d, name, move_rejected, rename_ok, t, det, reason_codes) ==
  LET slug == SanitizeSlug(name)
      image_path == Path("incoming", name)
      source_path == IF move_rejected THEN Path("rejected", name) ELSE image_path
      item_state == CreateItemState(source_path, det[1], det[2], FALSE,
                                    reason_codes, None, None, t)
  IN  IF move_rejected /\ ~rename_ok
      THEN \* image_path.rename raises, nothing catches it
           Answer(d, Resp("process", slug, "raised", 0, "rename", "failed"))
      ELSE Answer([d EXCEPT
                     !.files = IF move_rejected
                               THEN Rename(d.files, image_path, source_path)
                               ELSE @,
                     !.state = SetItemState(@, slug, item_state)],
                  Resp("process", slug, "rejected", 0, "",
                       IF move_rejected THEN "moved" ELSE "none"))

\* Lines 156-189: binarize with the threshold and the overrides of the
\* state, write the artifacts, count the shapes, save the state.
ProcessArtifacts(d, name, t, item_state, normalized) ==
  LET slug == SanitizeSlug(name)
      params == Get(item_state, "normalize_params", <<>>)
      threshold == IF "otsu_threshold" \in DOMAIN params
                   THEN Some(params["otsu_threshold"]) ELSE None
      overrides == Get(item_state, "overrides", <<>>)
      saved == UpdateItemState(item_state,
                               [source_path |-> Path("incoming", name)], t)
  IN  Only({ Answer([d EXCEPT
                       !.svg = Put(@, slug, ExportSvg(bm)),
                       !.preview = Put(@, slug, bm),
                       !.shapes = UpdateShapesFromBitmap(@, bm),
                       !.state = SetItemState(@, slug, saved)],
                    Resp("process", slug, "success", 0, "", "none")) :
               bm \in {Binarize(normalized, threshold, Some(overrides))} })

\* Lines 119-154: normalize, measure, get or create the state.
ProcessQualifying(d, name, t, image, det) ==
  LET existing == GetItemState(d.state, SanitizeSlug(name))
  IN  Only({ Only({ ProcessArtifacts(d, name, t, item_state, normalized) :
                      item_state \in {
                        IF existing = None
                        THEN CreateItemState(
                               Path("incoming", name), det[1], det[2], TRUE, <<>>,
                               Some(ComputeOtsuThreshold(normalized)),
                               Some(ComputePixelDensity(normalized)), t)
                        ELSE UpdateItemState(existing[1],
                               [oled_bbox |-> det[1],
                                validation |->
                                  [is_qualifying |-> TRUE,
                                   confidence |-> det[2],
                                   reason_codes |-> <<>>,
                                   pixel_density |-> ComputePixelDensity(normalized)],
                                normalize_params |->
                                  [target_size |-> <<BitmapW, BitmapH>>,
                                   otsu_threshold |-> ComputeOtsuThreshold(normalized)]],
                               t) } }) :
               normalized \in {NormalizeImage(image, det[1][1])} })

\* Lines 63-76, 94, 119.
ProcessImage(d, name, move_rejected, rename_ok, t) ==
  LET image_path == Path("incoming", name)
      image == d.files[image_path]
  IN  IF image_path \notin DOMAIN d.files \/ ~image.readable
      THEN Answer(d, Resp("process", SanitizeSlug(name), "error", 0,
                          "Failed to read image", "none"))
      ELSE Only({ Only({ IF ~q[1]
                         THEN ProcessRejected(d, name, move_rejected, rename_ok,
                                              t, det, q[2])
                         ELSE ProcessQualifying(d, name, t, image, det) :
                           q \in {QualifyOled(det[1], det[2], det[3],
                                              Some(image.diagram),
                                              DefaultThreshold,
                                              DefaultDiagramThreshold)} }) :
                    det \in {DetectOledBbox(image)} })

----------------------------------------------------------------------------
(* __main__.py: update_manifest, lines 192-236, and cmd_process, lines     *)
(* 239-295, for one file found in incoming/.                               *)

\* The slugs of S as a list: the newest first when by_time, else in the
\* order of the document.
RECURSIVE ListOf(_, _, _)
ListOf(items, S, by_time) ==
  IF S = {} THEN <<>>
  ELSE Only({ Only({ <<s>> \o ListOf(items, rest, by_time) : rest \in {S \ {s}} }) :
                s \in { CHOOSE x \in S :
                          by_time => \A y \in S :
                            items[x]["updated_at"] >= items[y]["updated_at"] } })

ScreenEntry(d, slug) ==
  [id |-> slug, svg |-> slug,
   source |-> Get(d.state[slug], "source_path", <<>>),
   confidence |-> Get(Get(d.state[slug], "validation", <<>>), "confidence", 0),
   updatedAt |-> Get(d.state[slug], "updated_at", 0)]

RejectedEntry(d, slug) ==
  LET reason_codes == Get(Get(d.state[slug], "validation", <<>>),
                          "reason_codes", <<>>)
  IN  [file |-> Get(d.state[slug], "source_path", <<>>)[2],
       reason |-> IF reason_codes # <<>> THEN reason_codes[1] ELSE "unknown",
       confidence |-> Get(Get(d.state[slug], "validation", <<>>), "confidence", 0),
       notes |-> Get(d.state[slug], "notes", "")]

UpdateManifest(d) ==
  LET qualifying(slug) ==
        Get(Get(d.state[slug], "validation", <<>>), "is_qualifying", FALSE)
  IN  Only({ [d EXCEPT !.manifest =
                Some([screens |-> [n \in 1 .. Len(lists[1]) |->
                                     ScreenEntry(d, lists[1][n])],
                      rejected |-> [n \in 1 .. Len(lists[2]) |->
                                      RejectedEntry(d, lists[2][n])]])] :
               lists \in { << ListOf(d.state,
                                     { s \in DOMAIN d.state : qualifying(s) }, TRUE),
                              ListOf(d.state,
                                     { s \in DOMAIN d.state : ~qualifying(s) }, FALSE) >> } })

\* process_image, then update_manifest unless process_image raised.
CmdProcess(d, name, move_rejected, rename_ok, t) ==
  Only({ IF r.resp.status = "raised" THEN r
         ELSE Answer(UpdateManifest(r.disk), r.resp) :
           r \in {ProcessImage(d, name, move_rejected, rename_ok, t)} })

----------------------------------------------------------------------------
(* server.py: the review API.                                              *)

HttpError(d, op, slug, code, detail) ==
  Answer(d, Resp(op, slug, "error", code, detail, "none"))

\* The body of a state update (ItemStateUpdate): every field is optional.
ItemStateUpdate(oled_bbox, threshold, overrides, flags, notes, manual_status) ==
  [oled_bbox |-> oled_bbox, threshold |-> threshold, overrides |-> overrides,
   flags |-> flags, notes |-> notes, manual_status |-> manual_status]

ManualStatuses == {"ok", "needs_review", "rejected"}

\* update_item_state_endpoint, lines 182-258.
UpdateItemStateEndpoint(d, item_id, update, t) ==
  LET existing == GetItemState(d.state, item_id)
      item0 == existing[1]
      \* lines 200-204: the threshold is written into the loaded item
      item1 == IF update.threshold # None
               THEN Put(item0, "normalize_params",
                        Put(Get(item0, "normalize_params", <<>>),
                            "otsu_threshold", update.threshold[1]))
               ELSE item0
      \* lines 222-236: manual_status lives in flags
      flags1 == Get(item1, "flags", <<>>)
      item2 == IF update.manual_status = None THEN item1
               ELSE IF update.manual_status[1] = ""
               THEN Put(item1, "flags", Pop(flags1, "manual_status"))
               ELSE Put(item1, "flags",
                        Put(flags1, "manual_status", update.manual_status[1]))
      \* lines 239-243: the flags of the request are merged in
      item3 == IF update.flags # None
               THEN Put(item2, "flags",
                        Update(Get(item2, "flags", <<>>), update.flags[1]))
               ELSE item2
      u1 == IF update.oled_bbox # None
            THEN [oled_bbox |-> update.oled_bbox] ELSE <<>>
      u2 == IF update.threshold # None
            THEN Put(u1, "normalize_params", item1["normalize_params"]) ELSE u1
      u3 == IF update.overrides # None
            THEN Put(u2, "overrides",
                     [k \in DOMAIN update.overrides[1] \cap {"force_on", "force_off"}
                        |-> update.overrides[1][k]])
            ELSE u2
      u4 == IF update.flags # None \/ update.manual_status # None
            THEN Put(u3, "flags", item3["flags"]) ELSE u3
      updates == IF update.notes # None
                 THEN Put(u4, "notes", update.notes[1]) ELSE u4
      updated_state == UpdateItemState(item3, updates, t)
  IN  IF existing = None
      THEN HttpError(d, "update", item_id, 404, "Item not found")
      ELSE IF /\ update.manual_status # None
              /\ update.manual_status[1] # ""
              /\ update.manual_status[1] \notin ManualStatuses
      THEN HttpError(d, "update", item_id, 400, "Invalid manual_status")
      ELSE Answer([d EXCEPT !.state = SetItemState(@, item_id, updated_state)],
                  Resp("update", item_id, "ok", 200, "", "none"))

----------------------------------------------------------------------------
(* rerun_item, lines 260-478.                                              *)

\* Mutant of StoredBboxRefusal: the bounds test of line 297 is forgotten.
StoredBboxRefusalDimensionsOnly(bbox, image) ==
  IF bbox[3] <= 0 \/ bbox[4] <= 0 THEN "Invalid bbox dimensions in state"
  ELSE ""

\* Lines 286, 295-298: why a stored bbox of four numbers is refused, or "".
StoredBboxRefusal(bbox, image) ==
  IF bbox[3] <= 0 \/ bbox[4] <= 0 THEN "Invalid bbox dimensions in state"
  ELSE IF \/ bbox[1] < 0 \/ bbox[2] < 0
          \/ bbox[1] + bbox[3] > image.width
          \/ bbox[2] + bbox[4] > image.height
  THEN "Bbox out of image bounds"
  ELSE ""

\* Lines 300-320: confidence and metrics of a stored bbox.
StoredBboxMetrics(bbox, image) ==
  LET aspect_ratio == AspectRatio(bbox)
      aspect_score == 1000 - Min((Abs(aspect_ratio - 2000) * 1000) \div 2000, 1000)
      area_fraction == AreaFraction(bbox, image.height * image.width)
  IN  [aspect_ratio |-> aspect_ratio, aspect_score |-> aspect_score,
       area_fraction |-> area_fraction, rectangularity |-> 800]

\* Mutant of StoredBboxConfidence: a stored box is taken as certain.
StoredBboxConfidenceAssumed(bbox, image) == 1000

StoredBboxConfidence(bbox, image) ==
  LET metrics == StoredBboxMetrics(bbox, image)
  IN  (metrics.aspect_score * 400 + Min(metrics.area_fraction, 500) * 2 * 300
         + 800 * 300) \div 1000

\* Mutant of WasQualifying: the reviewer's mark is read instead.
WasQualifyingIgnoringValidation(item_state) ==
  Get(Get(item_state, "flags", <<>>), "manual_status", "") # "rejected"

\* Line 418.
WasQualifying(item_state) ==
  Get(Get(item_state, "validation", <<>>), "is_qualifying", FALSE)

\* Mutant of Relocation: the file is never moved.
RelocationNever(is_qualifying, was_qualifying, source_path) == "none"

\* Lines 421-453: the area the source file is to be moved to, or "none".
Relocation(is_qualifying, was_qualifying, source_path) ==
  IF is_qualifying /\ ~was_qualifying /\ source_path[1] = "rejected"
  THEN "incoming"
  ELSE IF ~is_qualifying /\ was_qualifying /\ source_path[1] = "incoming"
  THEN "rejected"
  ELSE "none"

\* Mutant of RelocationUpdates: source_path is set before the rename.
RelocationUpdatesAnyway(target, name, rename_ok) ==
  IF target # "none" THEN [source_path |-> Path(target, name)] ELSE <<>>

\* Lines 431-433, 446-448: source_path is updated after the rename, so a
\* rename that raises leaves it out of the updates.
RelocationUpdates(target, name, rename_ok) ==
  IF target # "none" /\ rename_ok
  THEN [source_path |-> Path(target, name)]
  ELSE <<>>

\* Mutant of RerunShapes: "if is_qualifying" is forgotten.
RerunShapesAlways(shapes, bm, is_qualifying) == UpdateShapesFromBitmap(shapes, bm)

\* Lines 409-410.
RerunShapes(shapes, bm, is_qualifying) ==
  IF is_qualifying THEN UpdateShapesFromBitmap(shapes, bm) ELSE shapes

\* Lines 359-478: write the artifacts, count the shapes, move the file,
\* save the state.
RerunArtifacts(d, item_id, rename_ok, write_ok, t, det, q, normalized, bm) ==
  LET item_state == d.state[item_id]
      source_path == item_state["source_path"]
      target == Relocation(q[1], WasQualifying(item_state), source_path)
      updates ==
        Update(Update(RelocationUpdates(target, source_path[2], rename_ok),
                      IF Get(item_state, "oled_bbox", None) # det[1]
                      THEN [oled_bbox |-> det[1]] ELSE <<>>),
               [validation |-> [is_qualifying |-> q[1],
                                confidence |-> det[2],
                                reason_codes |-> q[2],
                                pixel_density |-> ComputePixelDensity(normalized)]])
      updated_state == UpdateItemState(item_state, updates, t)
  IN  IF ~write_ok
      THEN \* cv2.imwrite failed: the SVG of line 365 is already written
           HttpError([d EXCEPT !.svg = Put(@, item_id, ExportSvg(bm))],
                     "rerun", item_id, 500, "Failed to write preview image")
      ELSE Answer([d EXCEPT
                     !.svg = Put(@, item_id, ExportSvg(bm)),
                     !.preview = Put(@, item_id, bm),
                     !.shapes = RerunShapes(@, bm, q[1]),
                     !.files = IF target # "none" /\ rename_ok
                               THEN Rename(@, source_path,
                                           Path(target, source_path[2]))
                               ELSE @,
                     !.state = SetItemState(@, item_id, updated_state)],
                  Resp("rerun", item_id, "ok", 200, "",
                       IF target = "none" THEN "none"
                       ELSE IF rename_ok THEN "moved" ELSE "failed"))

\* Lines 328-357: qualify, normalize, binarize with the threshold and the
\* overrides of the state.
RerunQualify(d, item_id, rename_ok, write_ok, t, image, det) ==
  LET item_state == d.state[item_id]
      params == Get(item_state, "normalize_params", <<>>)
      overrides_raw == Get(item_state, "overrides", <<>>)
      overrides == [k \in DOMAIN overrides_raw \cap {"force_on", "force_off"}
                      |-> overrides_raw[k]]
  IN  Only({ Only({ RerunArtifacts(d, item_id, rename_ok, write_ok, t, det, q,
                                   normalized, bm) :
                      q \in {QualifyOled(det[1], det[2], det[3],
                                         Some(image.diagram), DefaultThreshold,
                                         DefaultDiagramThreshold)},
                      bm \in {Binarize(normalized,
                                       Some(IF "otsu_threshold" \in DOMAIN params
                                            THEN params["otsu_threshold"]
                                            ELSE ComputeOtsuThreshold(normalized)),
                                       IF overrides # <<>> THEN Some(overrides)
                                       ELSE None)} }) :
               normalized \in {NormalizeImage(image, det[1][1])} })

\* Lines 263-326: the refusals, and the bbox of the state or of detection.
RerunItem(d, item_id, rename_ok, write_ok, t) ==
  LET existing == GetItemState(d.state, item_id)
      item_state == existing[1]
      source_path == item_state["source_path"]
      image == d.files[source_path]
      bbox_list == Get(item_state, "oled_bbox", None)
      stored == bbox_list # None /\ Len(bbox_list[1]) = 4
  IN  IF existing = None
      THEN HttpError(d, "rerun", item_id, 404, "Item not found")
      ELSE IF source_path \notin DOMAIN d.files
      THEN HttpError(d, "rerun", item_id, 404, "Source file not found")
      ELSE IF ~image.readable
      THEN HttpError(d, "rerun", item_id, 400, "Failed to read image")
      ELSE IF stored /\ StoredBboxRefusal(bbox_list[1], image) # ""
      THEN HttpError(d, "rerun", item_id, 400,
                     StoredBboxRefusal(bbox_list[1], image))
      ELSE Only({ IF det[1] = None
                  THEN HttpError(d, "rerun", item_id, 400,
                                 "Could not detect OLED bbox")
                  ELSE RerunQualify(d, item_id, rename_ok, write_ok, t, image, det) :
                    det \in { IF stored
                              THEN <<bbox_list,
                                     StoredBboxConfidence(bbox_list[1], image),
                                     StoredBboxMetrics(bbox_list[1], image)>>
                              ELSE DetectOledBbox(image) } })


\* rerun_item when the server process is killed between the rename of lines
\* 432/446 and set_item_state of line 471: the artifacts, the shape counts
\* and the move are on disk, the state document is as it was, and no
\* response is sent.
RerunItemKilled(d, item_id, t) ==
  Only({ Answer([r.disk EXCEPT !.state = d.state],
                Resp("rerun_killed", item_id, "killed", 0, "", r.resp.relocation)) :
           r \in {RerunItem(d, item_id, TRUE, TRUE, t)} })
----------------------------------------------------------------------------
(* The review workflow as a state machine: one device, whose incoming/     *)
(* directory starts with one source file and an empty state document.      *)

\* The requests the reviewer sends to POST /api/item/{id}/state.
BboxRequests ==
  { ItemStateUpdate(Some(b), None, None, None, None, None) :
      b \in { <<0, 0, 500, 250>>,      \* the display
              <<100, 100, 200, 150>>,  \* a box that scores low
              <<0, 0, 0, 250>>,        \* no width
              <<200, 100, 500, 250>>,  \* beyond the right edge
              <<0, 0, 500>> } }        \* not four numbers
ThresholdRequests ==
  { ItemStateUpdate(None, Some(255), None, None, None, None) }
OverrideRequests ==
  { ItemStateUpdate(None, None, Some([force_on |-> << <<1, 2>> >>]), None, None, None) }
ManualStatusRequests ==
  { ItemStateUpdate(None, None, None, None, None, Some(s)) :
      s \in {"", "rejected", "bogus"} }
  \cup { ItemStateUpdate(None, None, None, Some([manual_status |-> s]), None, None) :
           s \in {"ok", "bogus"} }
NotesRequests ==
  { ItemStateUpdate(None, None, None, None, Some("seen"), None) }

Requests ==
  BboxRequests \cup ThresholdRequests \cup OverrideRequests
    \cup ManualStatusRequests \cup NotesRequests

\* A request that only sets or clears flags.manual_status.
ManualStatusOnly(update) ==
  /\ update.oled_bbox = None /\ update.threshold = None
  /\ update.overrides = None /\ update.notes = None
  /\ update.manual_status # None \/ update.flags # None
  /\ update.flags # None => DOMAIN update.flags[1] \subseteq {"manual_status"}

\* The second run follows the first one, operation by operation.
Follow(d) == IF shadow = None THEN None ELSE Some(d)

FlowStart ==
  /\ \E image \in Images : disk = EmptyDisk(image)
  /\ shadow = Some(disk)
  /\ resp = Resp("none", "", "ok", 0, "", "none")
  /\ now = 0

\* python -m oledvec process, with one file in incoming/.
Process ==
  /\ now < MaxOps
  /\ \E name \in Names, move_rejected \in BOOLEAN, rename_ok \in BOOLEAN :
       /\ Path("incoming", name) \in DOMAIN disk.files
       /\ \E r \in {CmdProcess(disk, name, move_rejected, rename_ok, now + 1)} :
            /\ disk' = r.disk
            /\ resp' = r.resp
       /\ shadow' = Follow(CmdProcess(shadow[1], name, move_rejected,
                                      rename_ok, now + 1).disk)
  /\ now' = now + 1

\* POST /api/item/{item_id}/state
UpdateState ==
  /\ now < MaxOps
  /\ \E item_id \in Slugs, update \in Requests :
       /\ \E r \in {UpdateItemStateEndpoint(disk, item_id, update, now + 1)} :
            /\ disk' = r.disk
            /\ resp' = r.resp
       /\ shadow' = IF ManualStatusOnly(update) THEN shadow
                    ELSE Follow(UpdateItemStateEndpoint(shadow[1], item_id,
                                                        update, now + 1).disk)
  /\ now' = now + 1

\* POST /api/item/{item_id}/rerun
Rerun ==
  /\ now < MaxOps
  /\ \E item_id \in Slugs, rename_ok \in BOOLEAN, write_ok \in BOOLEAN :
       /\ \E r \in {RerunItem(disk, item_id, rename_ok, write_ok, now + 1)} :
            /\ disk' = r.disk
            /\ resp' = r.resp
       /\ shadow' = Follow(RerunItem(shadow[1], item_id, rename_ok,
                                     write_ok, now + 1).disk)
  /\ now' = now + 1

\* Outside the program: a source file is deleted, or overwritten with bytes
\* cv2.imread cannot decode.
RemoveFile ==
  /\ now < MaxOps
  /\ \E p \in DOMAIN disk.files :
       /\ disk' = [disk EXCEPT !.files = Pop(@, p)]
       /\ shadow' = Follow([shadow[1] EXCEPT !.files = Pop(@, p)])
  /\ resp' = Resp("remove", "", "ok", 0, "", "none")
  /\ now' = now + 1

CorruptFile ==
  /\ now < MaxOps
  /\ \E p \in DOMAIN disk.files :
       /\ disk.files[p].readable
       /\ disk' = [disk EXCEPT !.files[p] = ImgUnreadable]
       /\ shadow' = Follow([shadow[1] EXCEPT
                              !.files = IF p \in DOMAIN @
                                        THEN Put(@, p, ImgUnreadable) ELSE @])
  /\ resp' = Resp("corrupt", "", "ok", 0, "", "none")
  /\ now' = now + 1

FlowNext ==
  \/ Process
  \/ UpdateState
  \/ Rerun
  \/ RemoveFile
  \/ CorruptFile


\* POST /api/item/{item_id}/rerun on a server that is killed right after it
\* has moved the source file.
RerunKilled ==
  /\ now < MaxOps
  /\ \E item_id \in Slugs :
       /\ \E r \in {RerunItem(disk, item_id, TRUE, TRUE, now + 1)} :
            r.resp.status = "ok" /\ r.resp.relocation = "moved"
       /\ \E k \in {RerunItemKilled(disk, item_id, now + 1)} :
            /\ disk' = k.disk
            /\ resp' = k.resp
       /\ shadow' = Follow(RerunItemKilled(shadow[1], item_id, now + 1).disk)
  /\ now' = now + 1
----------------------------------------------------------------------------
(* Specifications.  Each runs one part of the program; the variables of    *)
(* the other parts stay idle.                                              *)

VzIdle ==
  /\ bitmap = {}
  /\ rectangles = <<>>
  /\ new_rectangles = <<>>
  /\ used = {}
  /\ i = 1
  /\ merged = <<>>
  /\ changed = FALSE
  /\ pc = "idle"

QIdle ==
  /\ qargs = [bbox |-> None, confidence |-> 0, diagram |-> None, metrics |-> <<>>]
  /\ qret = None

FlowIdle ==
  /\ disk = <<>>
  /\ shadow = <<>>
  /\ resp = <<>>
  /\ now = 0

CallIdle ==
  /\ call = <<>>
  /\ ret = <<>>

WritersIdle == writers = <<>>

\* bitmap_to_svg_rectangles on every bitmap of the grid.
VzInit == VzStart /\ QIdle /\ FlowIdle /\ CallIdle /\ WritersIdle

SpecVz == VzInit /\ [][VzNext /\ UNCHANGED <<qVars, flowVars, callVars, wVars>>]_vars

\* The loop is sequential code: a step that can be taken is taken.
SpecVzFair == SpecVz /\ WF_vars(VzNext /\ UNCHANGED <<qVars, flowVars, callVars, wVars>>)

\* qualify_oled on every call of QStart.
QInit == QStart /\ VzIdle /\ FlowIdle /\ CallIdle /\ WritersIdle

QNext == Qualify /\ UNCHANGED <<vzVars, flowVars, callVars, wVars>>

SpecQ == QInit /\ [][QNext]_vars


FlowInit == FlowStart /\ VzIdle /\ QIdle /\ CallIdle /\ WritersIdle
SpecFlow == FlowInit /\ [][FlowNext /\ UNCHANGED <<vzVars, qVars, callVars, wVars>>]_vars

\* The workflow on a server that may be killed in the middle of a rerun.
SpecFlowKilled == FlowInit /\ [][(FlowNext \/ RerunKilled) /\ UNCHANGED <<vzVars, qVars, callVars, wVars>>]_vars
----------------------------------------------------------------------------
(* Single functions of the engine, each called on its own on every input   *)
(* of a bounded set.                                                       *)

\* update_item_state.  The records are what create_item_state builds, with
\* and without reviewer data, and records of a document that lacks the
\* overrides or the flags key.
ItemStates ==
  { [k \in DOMAIN base \ drop |-> base[k]] :
      base \in { [CreateItemState(Path("incoming", <<"a", "png">>),
                                  Some(<<0, 0, 500, 250>>), 900, TRUE, <<>>,
                                  Some(127), Some(444), 0)
                    EXCEPT !["overrides"] = o, !["flags"] = f, !["notes"] = n] :
                   o \in { [force_on |-> <<>>, force_off |-> <<>>],
                           [force_on |-> << <<1, 2>> >>, force_off |-> <<>>] },
                   f \in { <<>>, [manual_status |-> "ok"] },
                   n \in { "", "seen" } },
      drop \in { {}, {"overrides"}, {"flags"} } }

\* The keyword arguments: any of overrides, flags, notes and oled_bbox.
UpdateKwargs ==
  { Only({ [k \in {key \in DOMAIN all : all[key] # None} |-> all[k][1]] :
             all \in {[overrides |-> o, flags |-> f, notes |-> n, oled_bbox |-> b]} }) :
      o \in { None, Some(<<>>), Some([force_on |-> << <<0, 0>> >>]),
              Some([force_off |-> << <<1, 1>> >>]) },
      f \in { None, Some([manual_status |-> "rejected"]), Some([reviewed |-> "yes"]) },
      n \in { None, Some("new") },
      b \in { None, Some(Some(<<1, 1, 2, 2>>)) } }

UpdateStart ==
  /\ call \in { [item_state |-> s, updates |-> u, t |-> 1] :
                  s \in ItemStates, u \in UpdateKwargs }
  /\ ret = None

CallUpdateItemState ==
  /\ ret = None
  /\ ret' = Some(UpdateItemState(call.item_state, call.updates, call.t))
  /\ UNCHANGED call

UpdateInit == UpdateStart /\ VzIdle /\ QIdle /\ FlowIdle /\ WritersIdle
SpecUpdate == UpdateInit /\ [][CallUpdateItemState /\ UNCHANGED <<vzVars, qVars, flowVars, wVars>>]_vars

\* extract_connected_components and hash_component, on a bitmap, on the
\* same bitmap with one pixel flipped and on the bitmap turned about its
\* diagonal.
HashStart ==
  /\ \E bm \in { b \in SUBSET Pixels : Cardinality(b) <= MaxOn }, p \in Pixels :
       call = [bitmap |-> bm,
               flipped |-> IF p \in bm THEN bm \ {p} ELSE bm \cup {p},
               turned |-> { <<q[2], q[1]>> : q \in bm }]
  /\ ret = None

\* The hash of every component of the bitmap.
HashesOf(bm) == [c \in ExtractConnectedComponents(bm) |-> HashComponent(c)]

CallHashComponent ==
  /\ ret = None
  /\ ret' = Some([bitmap |-> HashesOf(call.bitmap),
                  flipped |-> HashesOf(call.flipped),
                  turned |-> HashesOf(call.turned)])
  /\ UNCHANGED call

HashInit == HashStart /\ VzIdle /\ QIdle /\ FlowIdle /\ WritersIdle
SpecHash == HashInit /\ [][CallHashComponent /\ UNCHANGED <<vzVars, qVars, flowVars, wVars>>]_vars

\* binarize.  The normalized images have two grey levels or one; the
\* coordinate lists name pixels of the bitmap and points outside it.
NormalizedImages ==
  { [p \in Pixels |-> IF (p[1] + p[2]) % 2 = 0 THEN 200 ELSE 40],
    [p \in Pixels |-> IF p[1] = 0 THEN 200 ELSE 40],
    [p \in Pixels |-> 200] }

CoordinateLists ==
  { <<>>,
    << <<0, 0>> >>,
    << <<1, 1>>, <<0, 0>>, <<BitmapW, 0>> >>,
    << <<-1, 0>>, <<BitmapW, 0>>, <<1, 0>> >>,
    << <<1, BitmapH>>, <<0, -1>>, <<1, 1>> >> }

OverrideDicts ==
  { <<>> }
    \cup { [force_on |-> a] : a \in CoordinateLists }
    \cup { [force_on |-> a, force_off |-> b] :
             a \in CoordinateLists, b \in CoordinateLists }

BinarizeStart ==
  /\ call \in { [image |-> n, threshold |-> t, overrides |-> o] :
                  n \in NormalizedImages,
                  t \in { None, Some(0), Some(100), Some(255) },
                  o \in { None } \cup { Some(d) : d \in OverrideDicts } }
  /\ ret = None

CallBinarize ==
  /\ ret = None
  /\ ret' = Some(Binarize(call.image, call.threshold, call.overrides))
  /\ UNCHANGED call

BinarizeInit == BinarizeStart /\ VzIdle /\ QIdle /\ FlowIdle /\ WritersIdle
SpecBinarize == BinarizeInit /\ [][CallBinarize /\ UNCHANGED <<vzVars, qVars, flowVars, wVars>>]_vars

\* detect_oled_bbox on a 600x300 page with no, one or two contours.  The
\* bounding rectangles run from one below the area filter, over one exactly
\* at it that earns nothing else, to the whole page.
CandidateRects ==
  { <<10, 10, 100, 50>>, <<100, 30, 90, 200>>, <<100, 100, 200, 150>>,
    <<0, 0, 500, 250>>, <<20, 10, 560, 280>>, <<0, 0, 600, 300>> }

Candidates ==
  { Candidate(r, (r[3] * r[4] * fill) \div 1000, s) :
      r \in CandidateRects, fill \in {0, 950}, s \in {0, 25, 60} }

DetectStart ==
  /\ \E cands \in { <<>> } \cup { <<c>> : c \in Candidates }
                    \cup { <<c, d>> : c \in Candidates, d \in Candidates } :
       call = [image |-> [readable |-> TRUE, width |-> 600, height |-> 300,
                          candidates |-> cands, refined |-> None,
                          diagram |-> 200]]
  /\ ret = None

CallDetectOledBbox ==
  /\ ret = None
  /\ ret' = Some(DetectOledBbox(call.image))
  /\ UNCHANGED call

DetectInit == DetectStart /\ VzIdle /\ QIdle /\ FlowIdle /\ WritersIdle
SpecDetect == DetectInit /\ [][CallDetectOledBbox /\ UNCHANGED <<vzVars, qVars, flowVars, wVars>>]_vars
----------------------------------------------------------------------------
(* Two processes that end process_image at the same time on one device:    *)
(* each runs update_shapes_from_bitmap (line 174) and then set_item_state  *)
(* (line 181).  Both functions load the whole document, change the loaded  *)
(* copy and save the whole document; disk holds the two documents.         *)

Writers == {1, 2}

\* Mutant of SaveState: the save merges the copy into what the file holds.
SaveStateMerging(previous, state) == Update(previous, state)

\* save_state and save_shapes: open(path, "w") discards what the file held
\* and json.dump writes the copy of the writer.
SaveState(previous, state) == state
SaveShapes(previous, shapes) == shapes

WritersStart ==
  /\ writers \in
       [Writers ->
          { [item_id |-> id,
             item_data |-> CreateItemState(Path("incoming", <<id, "png">>), None, 0,
                                           FALSE, <<"bbox_missing">>, None, None, 0),
             bitmap |-> bm,
             pc |-> "load_shapes",
             shapes |-> <<>>, state |-> <<>>,
             seen_shapes |-> {}, seen_state |-> {},
             shapes_saved_before |-> {}, state_saved_before |-> {}] :
              id \in {"a", "b"},
              bm \in { {<<0, 0>>}, {<<0, 0>>, <<1, 0>>}, {<<0, 0>>, <<2, 2>>} } }]
  /\ disk = [state |-> <<>>, shapes |-> <<>>]
  /\ resp = <<>>
  /\ now = 0
  /\ shadow = <<>>

\* update_shapes_from_bitmap, line 151: shapes = load_shapes(...)
WriterLoadsShapes(w) ==
  /\ writers[w].pc = "load_shapes"
  /\ writers' = [writers EXCEPT
       ![w].pc = "save_shapes",
       ![w].shapes = disk.shapes,
       ![w].seen_shapes =
          { v \in Writers : writers[v].pc \in {"load_state", "save_state", "done"} }]
  /\ UNCHANGED disk

\* update_shapes_from_bitmap, lines 152-158: count, save_shapes(...)
WriterSavesShapes(w) ==
  /\ writers[w].pc = "save_shapes"
  /\ disk' = [disk EXCEPT
       !.shapes = SaveShapes(@, UpdateShapesFromBitmap(writers[w].shapes,
                                                       writers[w].bitmap))]
  /\ writers' = [writers EXCEPT
       ![w].pc = "load_state",
       ![w].shapes_saved_before =
          { v \in Writers : writers[v].pc \in {"load_state", "save_state", "done"} }]

\* set_item_state, line 124: state = load_state(...)
WriterLoadsState(w) ==
  /\ writers[w].pc = "load_state"
  /\ writers' = [writers EXCEPT
       ![w].pc = "save_state",
       ![w].state = disk.state,
       ![w].seen_state = { v \in Writers : writers[v].pc = "done" }]
  /\ UNCHANGED disk

\* set_item_state, lines 127-133: state["items"][item_id] = item_data, save_state(...)
WriterSavesState(w) ==
  /\ writers[w].pc = "save_state"
  /\ disk' = [disk EXCEPT
       !.state = SaveState(@, Put(writers[w].state, writers[w].item_id,
                                  writers[w].item_data))]
  /\ writers' = [writers EXCEPT
       ![w].pc = "done",
       ![w].state_saved_before = { v \in Writers : writers[v].pc = "done" }]

WritersNext ==
  \E w \in Writers :
    \/ WriterLoadsShapes(w)
    \/ WriterSavesShapes(w)
    \/ WriterLoadsState(w)
    \/ WriterSavesState(w)

WritersInit == WritersStart /\ VzIdle /\ QIdle /\ CallIdle
SpecWriters == WritersInit /\ [][WritersNext /\ UNCHANGED <<vzVars, qVars, callVars, resp, now, shadow>>]_vars
----------------------------------------------------------------------------
(* Claims about bitmap_to_svg_rectangles                                   *)

\* The rectangles that are alive at a point of the merge loop: those already
\* appended in this pass, and those of the list not yet absorbed or appended.
LiveCount ==
  IF pc \in {"while", "done"}
  THEN Len(rectangles)
  ELSE Len(new_rectangles)
       + Cardinality({ k \in 1 .. Len(rectangles) : k \notin used })

CoverCount(p) ==
  Cardinality({ k \in 1 .. Len(rectangles) : p \in RectPixels(rectangles[k]) })

InGrid(r) ==
  /\ r[3] > 0 /\ r[4] > 0
  /\ r[1] >= 0 /\ r[2] >= 0
  /\ r[1] + r[3] <= BitmapW /\ r[2] + r[4] <= BitmapH

\* C1: the returned rectangles cover exactly the true pixels: every true
\* pixel lies in exactly one rectangle, no rectangle contains a false pixel
\* (so no two rectangles overlap), and every rectangle lies in the grid.
C1_ExactCover ==
  pc = "done" =>
    /\ \A k \in 1 .. Len(rectangles) : InGrid(rectangles[k])
    /\ \A p \in Pixels : CoverCount(p) = IF p \in bitmap THEN 1 ELSE 0

\* A returned cover of at least two rectangles, one of them the result of a
\* merge, beside false pixels.
C1_Witness ==
  /\ pc = "done"
  /\ Len(rectangles) >= 2
  /\ Len(rectangles) < Len(SeedRectangles(bitmap, 0))
  /\ bitmap # Pixels

\* (y1, x1) is lexicographically smaller than (y2, x2).
RowMajorBefore(r1, r2) ==
  r1[2] < r2[2] \/ (r1[2] = r2[2] /\ r1[1] < r2[1])

\* C2: the returned rectangles are in row-major order of their top-left
\* corners: for positions k1 < k2, (y, x) of k1 is before (y, x) of k2.
C2_RowMajor ==
  pc = "done" =>
    \A k1, k2 \in 1 .. Len(rectangles) :
      k1 < k2 => RowMajorBefore(rectangles[k1], rectangles[k2])

\* A returned list in which a merged rectangle (height above 1) is followed
\* by a rectangle that starts on a row the merged one spans.
C2_Witness ==
  /\ pc = "done"
  /\ \E k1, k2 \in 1 .. Len(rectangles) :
       /\ k1 < k2
       /\ rectangles[k1][4] > 1
       /\ rectangles[k2][2] < rectangles[k1][2] + rectangles[k1][4]

\* C3: the merge loop terminates: every merge step reduces the number of
\* live rectangles by exactly one, no step increases it, the loop returns
\* right after a pass that performed no merge, and "done" is reached.
C3_Terminates ==
  /\ [][MergeStep => LiveCount' = LiveCount - 1]_vars
  /\ [][LiveCount' <= LiveCount]_vars
  /\ [][(pc = "while" /\ ~changed) => pc' = "done"]_vars
  /\ <>(pc = "done")

\* The loop has returned after two merges in a row on the same rectangle.
C3_Witness ==
  /\ pc = "done"
  /\ \E k \in 1 .. Len(rectangles) : rectangles[k][4] >= 3

----------------------------------------------------------------------------
(* Claims about qualify_oled                                               *)

\* C4: qualify_oled returns accepted = true if and only if confidence >=
\* threshold and no reason code fired (the only code the returned list may
\* then hold is the fallback "unknown"); when it returns accepted = false
\* the returned reason list is not empty.
C4_AcceptedIff ==
  qret # None =>
    LET accepted == qret[1][1]
        reasons == qret[1][2]
        fired == { reasons[k] : k \in 1 .. Len(reasons) } \ {"unknown"}
    IN  /\ accepted <=> (qargs.confidence >= DefaultThreshold /\ fired = {})
        /\ accepted => reasons = <<>>
        /\ ~accepted => reasons # <<>>

\* A call with confidence above the threshold that is rejected for a reason
\* other than low confidence.
C4_Witness ==
  /\ qret # None
  /\ qargs.confidence >= DefaultThreshold
  /\ ~qret[1][1]
  /\ qret[1][2] = <<"low_rectangularity">>

----------------------------------------------------------------------------
(* The review workflow: batch ingest, state updates and reruns.            *)

\* A step of the workflow that is the operation op.
StepOf(op) == now' = now + 1 /\ resp'.op = op

IsQualifying(d, s) == d.state[s]["validation"]["is_qualifying"]
SourcePath(d, s) == d.state[s]["source_path"]

\* C5: batch ingest of a readable image in which detection finds no
\* candidate never raises: qualify_oled(None, ...) is (False,
\* ["bbox_missing"]) and process_image persists a rejected record for the
\* slug with oled_bbox null, confidence 0.0, is_qualifying false and
\* reason_codes exactly ["bbox_missing"].
C5_NoCandidateRejected ==
  [][\A name \in Names :
       (/\ StepOf("process")
        /\ Path("incoming", name) \in DOMAIN disk.files
        /\ disk.files[Path("incoming", name)].readable
        /\ DetectOledBbox(disk.files[Path("incoming", name)])[1] = None)
       => /\ QualifyOled(None, 0, <<>>, None, DefaultThreshold,
                         DefaultDiagramThreshold) = <<FALSE, <<"bbox_missing">> >>
          /\ resp'.status = "rejected"
          /\ SanitizeSlug(name) \in DOMAIN disk'.state
          /\ LET item == disk'.state[SanitizeSlug(name)]
             IN  /\ item["oled_bbox"] = None
                 /\ item["validation"] =
                      [is_qualifying |-> FALSE, confidence |-> 0,
                       reason_codes |-> <<"bbox_missing">>]]_vars

\* What the claims call the computed outcome: the validation of every item,
\* the written artifacts, where the source files are and the shape counts.
Outcome(d) ==
  [validation |-> [s \in DOMAIN d.state |-> d.state[s]["validation"]],
   source_path |-> [s \in DOMAIN d.state |-> d.state[s]["source_path"]],
   svg |-> d.svg, preview |-> d.preview, files |-> d.files,
   shapes |-> d.shapes]

ManualStatus(d, s) == Get(Get(d.state[s], "flags", <<>>), "manual_status", "")

\* C6: the requests that only set or clear flags.manual_status have no
\* effect on the computed outcome: validation, the SVG and preview
\* artifacts, the location of the source file and the shape counts are the
\* same as in the run with those requests removed.
C6_ManualStatusNoEffect ==
  shadow # None => Outcome(disk) = Outcome(shadow[1])

\* A rerun has succeeded on an item the reviewer marked rejected, which the
\* run without the marks does not know of, and the item is accepted.
C6_Witness ==
  /\ shadow # None
  /\ resp.op = "rerun" /\ resp.status = "ok"
  /\ ManualStatus(disk, resp.slug) = "rejected"
  /\ ManualStatus(shadow[1], resp.slug) = ""
  /\ IsQualifying(disk, resp.slug)

\* The rerun of a step flips the qualification of the item s it is about.
FlipsToAccepted(s) ==
  /\ StepOf("rerun") /\ resp'.slug = s /\ s \in DOMAIN disk.state
  /\ ~IsQualifying(disk, s) /\ IsQualifying(disk', s)

FlipsToRejected(s) ==
  /\ StepOf("rerun") /\ resp'.slug = s /\ s \in DOMAIN disk.state
  /\ IsQualifying(disk, s) /\ ~IsQualifying(disk', s)

NoFlip(s) ==
  /\ StepOf("rerun") /\ resp'.slug = s /\ s \in DOMAIN disk.state
  /\ IsQualifying(disk, s) = IsQualifying(disk', s)

\* The source file of item s is moved to the area, and source_path with it.
MovedTo(s, area) ==
  LET from == SourcePath(disk, s)
      to == Path(area, from[2])
  IN  /\ SourcePath(disk', s) = to
      /\ disk'.files = Rename(disk.files, from, to)
      /\ from \notin DOMAIN disk'.files /\ to \in DOMAIN disk'.files

NotMoved(s) ==
  /\ SourcePath(disk', s) = SourcePath(disk, s)
  /\ disk'.files = disk.files

\* C7 as stated: a rerun that flips an item from rejected to accepted while
\* its source_path is in the rejected area moves the file to incoming and
\* updates source_path; a flip from accepted to rejected with the file in
\* incoming moves it to rejected; without a flip neither the file nor
\* source_path changes.
C7_FlipMoves ==
  [][\A s \in Slugs :
       /\ FlipsToAccepted(s) /\ SourcePath(disk, s)[1] = "rejected"
            => MovedTo(s, "incoming")
       /\ FlipsToRejected(s) /\ SourcePath(disk, s)[1] = "incoming"
            => MovedTo(s, "rejected")
       /\ NoFlip(s) => NotMoved(s)]_vars

\* C7, amended: the same, provided the rename succeeds; when it raises,
\* neither the file nor source_path changes.
C7_FlipMovesUnlessRenameFails ==
  [][\A s \in Slugs :
       /\ FlipsToAccepted(s) /\ SourcePath(disk, s)[1] = "rejected"
            => IF resp'.relocation = "failed" THEN NotMoved(s)
               ELSE MovedTo(s, "incoming")
       /\ FlipsToRejected(s) /\ SourcePath(disk, s)[1] = "incoming"
            => IF resp'.relocation = "failed" THEN NotMoved(s)
               ELSE MovedTo(s, "rejected")
       /\ NoFlip(s) => NotMoved(s)]_vars

\* A rerun has just accepted an item and moved its file back to incoming.
C7_Witness ==
  /\ resp.op = "rerun" /\ resp.status = "ok" /\ resp.relocation = "moved"
  /\ IsQualifying(disk, resp.slug)
  /\ SourcePath(disk, resp.slug)[1] = "incoming"
  /\ SourcePath(disk, resp.slug) \in DOMAIN disk.files

ValidationKeys == {"is_qualifying", "confidence", "reason_codes", "pixel_density"}

\* C8: when the move of the source file between the rejected and incoming
\* areas fails in a rerun, the request still succeeds, the new validation
\* (is_qualifying, confidence, reason_codes, pixel_density) is persisted
\* and source_path keeps its previous value.
C8_RenameFailureTolerated ==
  [][\A s \in Slugs :
       (StepOf("rerun") /\ resp'.slug = s /\ resp'.relocation = "failed")
       => /\ resp'.status = "ok" /\ resp'.code = 200
          /\ DOMAIN disk'.state[s]["validation"] = ValidationKeys
          /\ IsQualifying(disk', s) # IsQualifying(disk, s)
          /\ disk'.state[s]["updated_at"] = now'
          /\ NotMoved(s)]_vars

\* A rerun has answered ok although the move to the rejected area failed.
C8_Witness ==
  /\ resp.op = "rerun" /\ resp.status = "ok" /\ resp.relocation = "failed"
  /\ ~IsQualifying(disk, resp.slug)
  /\ SourcePath(disk, resp.slug)[1] = "incoming"

\* A rerun that was not refused for its input.
PassesValidation == StepOf("rerun") /\ resp'.code \notin {400, 404}

Written(d, s) == s \in DOMAIN d.svg /\ s \in DOMAIN d.preview

\* C9 as stated: every rerun that passes input validation writes the SVG
\* and the preview whether or not the recomputed qualification accepts, and
\* changes the shape counts if and only if it accepts.
C9_ShapesIffAccepting ==
  [][\A s \in Slugs :
       (PassesValidation /\ resp'.slug = s)
       => /\ Written(disk', s)
          /\ resp'.status = "ok"
               => (disk'.shapes # disk.shapes <=> IsQualifying(disk', s))]_vars

\* C9, amended: every rerun that succeeds has written the SVG and the
\* preview of the same bitmap whether or not it accepts; a rejecting rerun
\* leaves the shapes document as it was and an accepting one adds one count
\* for each connected component of the bitmap, which is no change for a
\* bitmap without a set pixel.  A rerun whose preview cannot be written
\* answers 500 after writing the SVG and changes nothing else.
C9_ShapesOnlyIfAccepting ==
  [][\A s \in Slugs :
       (PassesValidation /\ resp'.slug = s)
       => IF resp'.status = "ok"
          THEN /\ Written(disk', s)
               /\ disk'.svg[s] = ExportSvg(disk'.preview[s])
               /\ disk'.shapes =
                    IF IsQualifying(disk', s)
                    THEN UpdateShapesFromBitmap(disk.shapes, disk'.preview[s])
                    ELSE disk.shapes
               /\ disk'.preview[s] = {} => disk'.shapes = disk.shapes
          ELSE /\ resp'.code = 500
               /\ s \in DOMAIN disk'.svg
               /\ disk' = [disk EXCEPT !.svg = disk'.svg]]_vars

\* A rerun has rejected an item and written its artifacts; nothing was ever
\* counted in the shapes document.
C9_Witness ==
  /\ resp.op = "rerun" /\ resp.status = "ok"
  /\ ~IsQualifying(disk, resp.slug)
  /\ Written(disk, resp.slug)
  /\ disk.preview[resp.slug] # {}
  /\ disk.shapes = <<>>

\* Why the rerun of item s is refused for its input in d.
UnknownItem(d, s) == s \notin DOMAIN d.state
MissingFile(d, s) == ~UnknownItem(d, s) /\ SourcePath(d, s) \notin DOMAIN d.files
UnreadableImage(d, s) ==
  /\ ~UnknownItem(d, s) /\ ~MissingFile(d, s)
  /\ ~d.files[SourcePath(d, s)].readable
BadStoredBbox(d, s) ==
  /\ ~UnknownItem(d, s) /\ ~MissingFile(d, s) /\ ~UnreadableImage(d, s)
  /\ d.state[s]["oled_bbox"] # None
  /\ Len(d.state[s]["oled_bbox"][1]) = 4
  /\ LET b == d.state[s]["oled_bbox"][1]
         image == d.files[SourcePath(d, s)]
     IN  \/ b[3] <= 0 \/ b[4] <= 0
         \/ b[1] < 0 \/ b[2] < 0
         \/ b[1] + b[3] > image.width \/ b[2] + b[4] > image.height

\* C10: a rerun refused because the item is unknown, the source file is
\* missing, the image is unreadable or the stored bbox has a non-positive
\* width or height or extends outside the image answers an error and
\* changes nothing: state document, shapes document, artifacts and source
\* files are as before.
C10_RefusedRerunChangesNothing ==
  [][\A s \in Slugs :
       (/\ StepOf("rerun") /\ resp'.slug = s
        /\ \/ UnknownItem(disk, s) \/ MissingFile(disk, s)
           \/ UnreadableImage(disk, s) \/ BadStoredBbox(disk, s))
       => /\ resp'.status = "error" /\ resp'.code \in {400, 404}
          /\ disk' = disk]_vars

\* A rerun has been refused for a stored bbox beyond the image, for an item
\* that has artifacts.
C10_Witness ==
  /\ resp.op = "rerun" /\ resp.status = "error"
  /\ resp.detail = "Bbox out of image bounds"
  /\ Written(disk, resp.slug)

----------------------------------------------------------------------------
(* The record of an item over its life.                                    *)

\* The fields of a record that only the reviewer writes.
ReviewerFields(d, s) ==
  [k \in {"notes", "overrides", "flags"} |-> d.state[s][k]]

\* The keys of the dict field k that the request names.
Supplied(update, k) ==
  IF k = "overrides"
  THEN IF update.overrides = None THEN {} ELSE DOMAIN update.overrides[1]
  ELSE (IF update.flags = None THEN {} ELSE DOMAIN update.flags[1])
         \cup (IF update.manual_status = None THEN {} ELSE {"manual_status"})

\* The request leaves alone what it does not name.
KeepsUnsupplied(d, e, s, update) ==
  /\ update.notes = None => e.state[s]["notes"] = d.state[s]["notes"]
  /\ \A k \in {"overrides", "flags"} :
       \A key \in DOMAIN d.state[s][k] \ Supplied(update, k) :
         /\ key \in DOMAIN e.state[s][k]
         /\ e.state[s][k][key] = d.state[s][k][key]

\* C11: once a record exists for a slug, every later operation (state
\* update, rerun, batch re-ingest, accepted or rejected) changes it only by
\* partial merge: the record stays, and notes, overrides and flags keep
\* their values unless a state update supplies them.
C11_PartialMergeOnly ==
  [][\A s \in Slugs :
       (s \in DOMAIN disk.state /\ now' = now + 1)
       => /\ s \in DOMAIN disk'.state
          /\ resp'.op # "update"
               => ReviewerFields(disk', s) = ReviewerFields(disk, s)
          /\ resp'.op = "update"
               => \E update \in Requests :
                    /\ disk' = UpdateItemStateEndpoint(disk, s, update, now').disk
                    /\ KeepsUnsupplied(disk, disk', s, update)]_vars

\* C13: over batch ingests and reruns the shapes table only grows: no key
\* of the table disappears and no count decreases.
C13_ShapesOnlyGrow ==
  [][\A k \in DOMAIN disk.shapes :
       /\ k \in DOMAIN disk'.shapes
       /\ disk'.shapes[k] >= disk.shapes[k]]_vars

\* A rerun has counted a bitmap whose shapes were in the table already, and
\* the table holds more than one shape.
C13_Witness ==
  /\ resp.op = "rerun" /\ resp.status = "ok"
  /\ Cardinality(DOMAIN disk.shapes) >= 2
  /\ \E k \in DOMAIN disk.shapes : disk.shapes[k] >= 2

\* The fraction of true pixels of a bitmap, in thousandths.
TrueFraction(bm) == (1000 * Cardinality(bm)) \div Cardinality(Pixels)

\* C18: the validation.pixel_density that a batch ingest or a rerun
\* persists is the fraction of true pixels of the bitmap its artifacts were
\* generated from, that is, after the stored threshold and the overrides
\* were applied.
C18_DensityOfBitmap ==
  [][\A s \in Slugs :
       (/\ resp'.slug = s
        /\ \/ StepOf("process") /\ resp'.status = "success"
           \/ StepOf("rerun") /\ resp'.status = "ok")
       => disk'.state[s]["validation"]["pixel_density"]
            = TrueFraction(disk'.preview[s])]_vars

\* C19: in a rerun the updated item state (the new validation) is persisted
\* before the relocation of the source file is attempted: at the moment of
\* the rename the state document already holds the validation the rerun
\* computes.
C19_StateBeforeRelocation ==
  [][\A s \in Slugs :
       (StepOf("rerun_killed") /\ resp'.slug = s)
       => disk'.state[s]["validation"]
            = RerunItem(disk, s, TRUE, TRUE, now').disk.state[s]["validation"]]_vars

\* The stored oled_bbox of item s is there and is not a list of four numbers.
MalformedStoredBbox(d, s) ==
  /\ ~UnknownItem(d, s) /\ ~MissingFile(d, s) /\ ~UnreadableImage(d, s)
  /\ d.state[s]["oled_bbox"] # None
  /\ Len(d.state[s]["oled_bbox"][1]) # 4

\* C20: a rerun on an item whose stored oled_bbox is malformed (a list of
\* three numbers, say) is refused with an error and writes nothing; it does
\* not fall back to detection and overwrite the stored bbox.
C20_MalformedBboxRefused ==
  [][\A s \in Slugs :
       (StepOf("rerun") /\ resp'.slug = s /\ MalformedStoredBbox(disk, s))
       => /\ resp'.status = "error"
          /\ disk' = disk]_vars
----------------------------------------------------------------------------
(* The functions called on their own.                                      *)

\* C12: update_item_state returns a record in which, for overrides and
\* flags given as maps, the given keys are laid over the old map (old keys
\* that are not given keep their values), every other key of the updates
\* has the given value, and every key that is not in the updates has its
\* old value, except updated_at, which is the time of the call.
C12_MergeOrReplace ==
  ret # None =>
    LET old == call.item_state
        new == ret[1]
    IN  /\ DOMAIN new = DOMAIN old \cup DOMAIN call.updates \cup {"updated_at"}
        /\ \A k \in DOMAIN call.updates \cap {"overrides", "flags"} :
             /\ DOMAIN new[k] = DOMAIN Get(old, k, <<>>) \cup DOMAIN call.updates[k]
             /\ \A key \in DOMAIN call.updates[k] :
                  new[k][key] = call.updates[k][key]
             /\ \A key \in DOMAIN Get(old, k, <<>>) \ DOMAIN call.updates[k] :
                  new[k][key] = old[k][key]
        /\ \A k \in DOMAIN call.updates \ {"overrides", "flags"} :
             new[k] = call.updates[k]
        /\ \A k \in DOMAIN old \ (DOMAIN call.updates \cup {"updated_at"}) :
             new[k] = old[k]
        /\ new["updated_at"] = call.t

\* A call that gives force_off and notes to a record that has a force_on
\* override and a flag: the override and the flag are still there.
C12_Witness ==
  /\ ret # None
  /\ DOMAIN call.updates = {"overrides", "notes"}
  /\ DOMAIN call.updates["overrides"] = {"force_off"}
  /\ "flags" \in DOMAIN call.item_state
  /\ "overrides" \in DOMAIN call.item_state
  /\ call.item_state["overrides"]["force_on"] # <<>>
  /\ call.item_state["flags"] # <<>>
  /\ ret[1]["overrides"]["force_on"] = call.item_state["overrides"]["force_on"]
  /\ ret[1]["flags"] = call.item_state["flags"]
  /\ ret[1]["notes"] = "new"

\* The component moved by (dx, dy).
Shift(comp, dx, dy) == { <<p[1] + dx, p[2] + dy>> : p \in comp }
Shifts == (-(BitmapW - 1) .. (BitmapW - 1)) \X (-(BitmapH - 1) .. (BitmapH - 1))

\* The same pixel pattern, wherever it lies.
SameShape(c1, c2) == \E d \in Shifts : Shift(c1, d[1], d[2]) = c2

\* c2 is the pattern of c1 with exactly one pixel more.
OnePixelMore(c1, c2) ==
  \E d \in Shifts, q \in c2 : Shift(c1, d[1], d[2]) = c2 \ {q}

\* C14: the hash of a component depends only on its pixel pattern inside
\* its tight bounding box: the same shape at two positions has the same
\* hash, and two components of which one has exactly one pixel more, or
\* that differ in one flipped pixel, have different hashes (the digest is
\* taken as injective on the hashed bytes).
C14_HashOfPattern ==
  ret # None =>
    \A c1 \in DOMAIN ret[1].bitmap \cup DOMAIN ret[1].flipped :
      \A c2 \in DOMAIN ret[1].bitmap \cup DOMAIN ret[1].flipped :
        LET h1 == IF c1 \in DOMAIN ret[1].bitmap
                  THEN ret[1].bitmap[c1] ELSE ret[1].flipped[c1]
            h2 == IF c2 \in DOMAIN ret[1].flipped
                  THEN ret[1].flipped[c2] ELSE ret[1].bitmap[c2]
        IN  /\ SameShape(c1, c2) => h1 = h2
            /\ OnePixelMore(c1, c2) => h1 # h2

\* The bitmap has the same shape of two pixels or more at two positions, and
\* the flipped pixel makes one of them a component of one pixel more.
C14_Witness ==
  /\ ret # None
  /\ \E c1 \in DOMAIN ret[1].bitmap, c2 \in DOMAIN ret[1].bitmap :
       /\ c1 # c2 /\ Cardinality(c1) >= 2 /\ SameShape(c1, c2)
       /\ ret[1].bitmap[c1] = ret[1].bitmap[c2]
       /\ \E c3 \in DOMAIN ret[1].flipped :
            /\ c3 \notin DOMAIN ret[1].bitmap
            /\ c2 \subseteq c3 /\ Cardinality(c3) = Cardinality(c2) + 1
            /\ ret[1].flipped[c3] # ret[1].bitmap[c2]

\* The coordinates of the list named key in the overrides of the call.
Forced(key) ==
  IF call.overrides = None THEN {}
  ELSE ListSet(Get(call.overrides[1], key, <<>>))

\* The plain threshold result at pixel p.
AboveThreshold(p) ==
  call.image[p] > (IF call.threshold = None
                   THEN ComputeOtsuThreshold(call.image)
                   ELSE call.threshold[1])

\* C15: in the bitmap binarize returns, every in-range pixel of force_off is
\* false, every in-range pixel of force_on that is not in force_off is
\* true, a pixel in both lists is false, and every other pixel has the
\* plain threshold result.
C15_OverridesApplied ==
  ret # None =>
    /\ ret[1] \subseteq Pixels
    /\ \A p \in Pixels :
         /\ p \in Forced("force_off") => p \notin ret[1]
         /\ p \in Forced("force_on") \ Forced("force_off") => p \in ret[1]
         /\ p \notin Forced("force_on") \cup Forced("force_off")
              => (p \in ret[1] <=> AboveThreshold(p))

\* A pixel above the threshold in both lists ends false, a pixel below the
\* threshold in force_on alone ends true, and the lists name points outside
\* the bitmap.
C15_Witness ==
  /\ ret # None
  /\ \E p \in Forced("force_on") \cap Forced("force_off") :
       InRange(p) /\ AboveThreshold(p) /\ p \notin ret[1]
  /\ \E p \in Forced("force_on") \ Forced("force_off") :
       InRange(p) /\ ~AboveThreshold(p) /\ p \in ret[1]
  /\ \E p \in Forced("force_on") \cup Forced("force_off") : ~InRange(p)

\* The candidate passes the minimum-area filter of the detector.
PassesAreaFilter(c, image) ==
  1000 * c.rect[3] * c.rect[4] >= MinAreaFraction * image.width * image.height

\* The candidate earns nothing for aspect, rectangularity, contrast,
\* position and size.
ScoresNothingElse(c, image) ==
  LET m == CandidateMetrics(c, image.width * image.height)
  IN  /\ m.aspect_score = 0 /\ m.rectangularity = 0 /\ m.contrast_score = 0
      /\ m.position_score = 0 /\ m.size_score = 0

\* C16: detect_oled_bbox returns bbox = null exactly when no candidate has
\* an area of at least min_area_fraction times the image area; when a
\* candidate passes the filter a bbox is returned, even if it scores 0 for
\* aspect, rectangularity, contrast, position and size.
C16_NullIffNoneLargeEnough ==
  ret # None =>
    (ret[1][1] = None
       <=> ~\E n \in 1 .. Len(call.image.candidates) :
              PassesAreaFilter(call.image.candidates[n], call.image))

\* The only candidate passes the filter and scores nothing else: its
\* rectangle is returned.
C16_Witness ==
  /\ ret # None
  /\ Len(call.image.candidates) = 1
  /\ PassesAreaFilter(call.image.candidates[1], call.image)
  /\ ScoresNothingElse(call.image.candidates[1], call.image)
  /\ ret[1][1] = Some(call.image.candidates[1].rect)

\* C17: the confidence detect_oled_bbox returns lies in [0, 1].
C17_ConfidenceInUnitInterval ==
  ret # None => 0 <= ret[1][2] /\ ret[1][2] <= 1000

\* The weighted sum with the area penalty applied once, to the whole sum;
\* m is the metrics dict of the candidate.
WeightedSumTimesPenalty(m) ==
  ((m.aspect_score * 300
      + Min(m.area_fraction, 500) * 2 * 200
      + m.rectangularity * 200
      + m.contrast_score * 150
      + m.position_score * 150
      + m.size_score * 1000) * AreaPenalty(m.area_fraction)) \div 1000000

\* C24: the confidence of the returned candidate is (0.30 aspect + 0.20 * 2
\* * min(area_fraction, 0.5) + 0.20 rectangularity + 0.15 contrast + 0.15
\* position + size bonus) times the area penalty, the penalty applied
\* exactly once, to the whole sum.
C24_PenaltyOnce ==
  (ret # None /\ ret[1][1] # None)
    => ret[1][2] = WeightedSumTimesPenalty(ret[1][3])
----------------------------------------------------------------------------
(* What every persisted record satisfies.                                  *)

\* The box is four numbers, has a positive width and height and lies inside
\* the image.
InsideImage(box, image) ==
  /\ Len(box) = 4
  /\ box[3] > 0 /\ box[4] > 0
  /\ box[1] >= 0 /\ box[2] >= 0
  /\ box[1] + box[3] <= image.width
  /\ box[2] + box[4] <= image.height

\* C21: after any sequence of batch ingests, state updates and reruns every
\* persisted oled_bbox is null or a box with width > 0 and height > 0 that
\* lies fully inside the item's source image.
C21_StoredBboxValid ==
  \A s \in DOMAIN disk.state :
    \/ disk.state[s]["oled_bbox"] = None
    \/ /\ Len(disk.state[s]["oled_bbox"][1]) = 4
       /\ disk.state[s]["oled_bbox"][1][3] > 0
       /\ disk.state[s]["oled_bbox"][1][4] > 0
       /\ (SourcePath(disk, s) \in DOMAIN disk.files
             /\ disk.files[SourcePath(disk, s)].readable)
            => InsideImage(disk.state[s]["oled_bbox"][1],
                           disk.files[SourcePath(disk, s)])

\* C22: after any sequence of state updates flags.manual_status of a
\* persisted record is absent or one of ok, needs_review, rejected, and a
\* request that is refused leaves the persisted record unchanged.
C22_ManualStatusValid ==
  [][/\ \A s \in DOMAIN disk'.state :
          ManualStatus(disk', s) \in {""} \cup ManualStatuses
     /\ (StepOf("update") /\ resp'.status = "error") => disk' = disk]_vars
----------------------------------------------------------------------------
(* The reasons of qualify_oled.                                            *)

\* C23: the reason list qualify_oled returns is a set: no reason code
\* occurs in it more than once, whatever the bbox, the confidence and the
\* metrics.
C23_ReasonsAreSet ==
  qret # None =>
    \A m \in 1 .. Len(qret[1][2]) : \A n \in 1 .. Len(qret[1][2]) :
      m # n => qret[1][2][m] # qret[1][2][n]

\* C27: qualify_oled never returns the reason code unknown: for a non-null
\* bbox, whenever no reason code fires the item is accepted, because a
\* confidence below the threshold adds low_confidence itself.
C27_NeverUnknown ==
  qret # None =>
    /\ \A n \in 1 .. Len(qret[1][2]) : qret[1][2][n] # "unknown"
    /\ (qargs.bbox # None /\ qret[1][2] = <<>>) => qret[1][1]
    /\ ~qret[1][1] => qret[1][2] # <<>>

\* A call with a confidence just below the threshold and nothing else to
\* object to: the only reason is low_confidence.
C27_Witness ==
  /\ qret # None
  /\ qargs.bbox # None
  /\ qargs.confidence = DefaultThreshold - 1
  /\ ~qret[1][1]
  /\ qret[1][2] = <<"low_confidence">>
----------------------------------------------------------------------------
(* Concurrent writers.                                                     *)

\* Both writers are through.
AllDone == \A w \in Writers : writers[w].pc = "done"

\* C25: the stores are not safe under concurrent writers.  Of two writers
\* that set two different items, the item of the one that saves first is
\* missing from the persisted document exactly when the other had loaded
\* the document before that save; likewise the shape counts of the first
\* saver are missing from the persisted table exactly when the other had
\* loaded the table before they were saved.
C25_FirstSaverLost ==
  AllDone =>
    \A w \in Writers : \A v \in Writers \ {w} :
      /\ (w \in writers[v].state_saved_before
            /\ writers[w].item_id # writers[v].item_id)
           => (writers[w].item_id \notin DOMAIN disk.state
                 <=> w \notin writers[v].seen_state)
      /\ w \in writers[v].shapes_saved_before
           => disk.shapes =
                UpdateShapesFromBitmap(
                  IF w \in writers[v].seen_shapes
                  THEN UpdateShapesFromBitmap(<<>>, writers[w].bitmap)
                  ELSE <<>>,
                  writers[v].bitmap)

\* Both writers are through, the item of one of them is not in the state
\* document and its shapes are not in the shapes table.
C25_Witness ==
  /\ AllDone
  /\ \E w \in Writers : \E v \in Writers \ {w} :
       /\ writers[w].item_id # writers[v].item_id
       /\ writers[w].item_id \notin DOMAIN disk.state
       /\ writers[v].item_id \in DOMAIN disk.state
       /\ disk.shapes = UpdateShapesFromBitmap(<<>>, writers[v].bitmap)
----------------------------------------------------------------------------
(* The key of a shape.                                                     *)

\* The components hashed by the call, with their keys.
HashedComponents ==
  DOMAIN ret[1].bitmap \cup DOMAIN ret[1].flipped \cup DOMAIN ret[1].turned

KeyOf(c) ==
  IF c \in DOMAIN ret[1].bitmap THEN ret[1].bitmap[c]
  ELSE IF c \in DOMAIN ret[1].flipped THEN ret[1].flipped[c]
  ELSE ret[1].turned[c]

\* C26: two connected components receive the same key only if they have
\* the same exact pixel pattern: the same width and height of the tight
\* bounding box and the same pixels in it (the digest is taken as injective
\* on the hashed bytes).
C26_SameKeySamePattern ==
  ret # None =>
    \A c1 \in HashedComponents : \A c2 \in HashedComponents :
      KeyOf(c1) = KeyOf(c2) => SameShape(c1, c2)
----------------------------------------------------------------------------
(* The shape of the vectorizer's output.                                   *)

\* <<x, y, w, 1>> is a maximal horizontal run of true pixels of the bitmap.
MaximalRun(bm, x, y, w) ==
  /\ w >= 1
  /\ \A u \in x .. x + w - 1 : <<u, y>> \in bm
  /\ <<x - 1, y>> \notin bm
  /\ <<x + w, y>> \notin bm

\* The maximal vertical stacks of identical maximal runs: the same x and
\* width on the rows y .. y + h - 1, and on neither row next to them.
MaximalStacks(bm) ==
  { r \in (0 .. BitmapW - 1) \X (0 .. BitmapH - 1) \X (1 .. BitmapW) \X (1 .. BitmapH) :
      /\ \A v \in r[2] .. r[2] + r[4] - 1 : MaximalRun(bm, r[1], v, r[3])
      /\ ~MaximalRun(bm, r[1], r[2] - 1, r[3])
      /\ ~MaximalRun(bm, r[1], r[2] + r[4], r[3]) }

\* The pass at hand is not the first one: a merge has shortened the list.
LaterPass == rectangles # SeedRectangles(bitmap, 0)

\* C28: seeded with the maximal horizontal runs, the horizontal-merge branch
\* never fires, and the first pass reaches the fixpoint: a later pass finds
\* no partner for any rectangle.  The returned list holds exactly one
\* rectangle per maximal vertical stack of identical maximal runs, and no
\* two returned rectangles can be merged vertically or horizontally.
C28_StacksInOnePass ==
  /\ pc = "inner" =>
       /\ HorizontalHits = {}
       /\ LaterPass => VerticalHits = {}
  /\ pc = "done" =>
       /\ { rectangles[k] : k \in 1 .. Len(rectangles) } = MaximalStacks(bitmap)
       /\ Len(rectangles) = Cardinality(MaximalStacks(bitmap))
       /\ \A k1, k2 \in 1 .. Len(rectangles) :
            k1 # k2 => /\ ~VerticalMatch(rectangles[k1], rectangles[k2])
                       /\ ~HorizontalMatch(rectangles[k1], rectangles[k2])

\* A second pass has run and the function has returned three rectangles or
\* more: a stack of two rows or more and, right below it at the same x, a
\* run of another width.
C28_Witness ==
  /\ pc = "done"
  /\ LaterPass
  /\ Len(rectangles) >= 3
  /\ \E k1, k2 \in 1 .. Len(rectangles) :
       /\ rectangles[k1][4] >= 2
       /\ rectangles[k2][1] = rectangles[k1][1]
       /\ rectangles[k2][2] = rectangles[k1][2] + rectangles[k1][4]
       /\ rectangles[k2][3] # rectangles[k1][3]
----------------------------------------------------------------------------
(* The first rerun of an item after its ingest.                            *)

\* The step is a rerun of item s that completes, and the step before it was
\* the batch ingest that accepted s: nothing has modified the record.
RerunRightAfterIngest(s) ==
  /\ resp.op = "process" /\ resp.status = "success" /\ resp.slug = s
  /\ StepOf("rerun") /\ resp'.slug = s /\ resp'.status = "ok"

RecomputedConfidence(d, s) ==
  LET box == d.state[s]["oled_bbox"][1]
      image == d.files[SourcePath(d, s)]
      ratio == (1000 * box[3]) \div box[4]
      aspect == 1000 - Min((Abs(ratio - 2000) * 1000) \div 2000, 1000)
      fraction == (1000 * box[3] * box[4]) \div (image.width * image.height)
  IN  (400 * aspect + 600 * Min(fraction, 500) + 240000) \div 1000

----------------------------------------------------------------------------
(* Where the record says the source file is.                               *)

Areas == {"incoming", "rejected"}

\* C30: after any sequence of completed batch ingests and reruns, in which
\* any rename may fail, the source_path of every persisted item names the
\* area in which the item's source file is; source_path changes only
\* together with the move of the file from the old path to the new one.
C30_SourcePathFollowsFile ==
  /\ [](\A s \in DOMAIN disk.state : \A area \in Areas :
          Path(area, SourcePath(disk, s)[2]) \in DOMAIN disk.files
            => SourcePath(disk, s)[1] = area)
  /\ [][\A s \in DOMAIN disk.state \cap DOMAIN disk'.state :
          SourcePath(disk', s) # SourcePath(disk, s)
            => /\ SourcePath(disk, s) \in DOMAIN disk.files
               /\ disk'.files = Rename(disk.files, SourcePath(disk, s),
                                       SourcePath(disk', s))]_vars

\* A rerun has accepted an item whose file is in rejected, the rename back
\* to incoming has failed, and the record still names rejected.
C30_Witness ==
  /\ resp.op = "rerun" /\ resp.status = "ok" /\ resp.relocation = "failed"
  /\ resp.slug \in DOMAIN disk.state
  /\ IsQualifying(disk, resp.slug)
  /\ SourcePath(disk, resp.slug)[1] = "rejected"
  /\ SourcePath(disk, resp.slug) \in DOMAIN disk.files
  /\ Path("incoming", SourcePath(disk, resp.slug)[2]) \notin DOMAIN disk.files
====
